---- MODULE Spec2Model ----
(***************************************************************************)
(* Reactivity core of BromiumJS (@bromscandium/core): the dependency       *)
(* tracker (dep.ts), refs (ref.ts), effects, computed refs, watch and the  *)
(* microtask job queue (effect.ts); and the renderer of @bromscandium/     *)
(* runtime (renderer.ts): render, mount, patch, unmount over a DOM.        *)
(* The last section is navigate of @bromscandium/router (router.ts).       *)
(*                                                                         *)
(* JavaScript is single-threaded: a reactive write runs its dependents     *)
(* synchronously, and those may write again.  The model keeps the          *)
(* JavaScript call stack explicitly (callStack): while it is not empty,    *)
(* exactly one step is enabled, the next step of the innermost call, so a  *)
(* top-level operation together with the steps that empty the stack again  *)
(* is one synchronous handler.  The bodies of effects, getters and jobs    *)
(* are user code; they are small programs drawn from the families below.   *)
(***************************************************************************)
EXTENDS Integers, Sequences, FiniteSets, TLC

\* ------------------------------------------------------------------ bounds
MaxVal == 1
MaxOps == 4
MaxDepth == 6
MaxObj == 2
MaxChildren == 3
MaxRenders == 3
MaxTrees == 2
MaxFragment == 2
MaxNavigations == 2
MaxGuards == 2

\* ------------------------------------------------------------- identifiers
Refs == {"a", "b"}
Computeds == {"X", "B", "C", "D"}
PlainEffects == {"e1", "e2"}
Watchers == {"w"}
Jobs == {"j1", "j2"}
Components == {"P", "K1", "K2"}
Effects == Computeds \cup PlainEffects \cup Watchers \cup Jobs \cup Components
\* The raw objects of reactive.ts and their property keys; a dependency set of
\* targetMap is named by its target and key.  Symbols are the keys that ownKeys
\* makes with Symbol('iterate').
ObjIds == {1, 2}
PKeys == {"x", "y"}
PropId(i, k) ==
  CASE i = 1 /\ k = "x" -> "o1.x"
    [] i = 1 /\ k = "y" -> "o1.y"
    [] i = 2 /\ k = "x" -> "o2.x"
    [] OTHER -> "o2.y"
Props == {PropId(i, k) : i \in ObjIds, k \in PKeys}
Symbols == {"s1", "s2"}
Containers == Refs \cup Computeds \cup Props \cup Symbols
None == "none"

\* ------------------------------------------------------------------ values
\* JavaScript values: numbers, NaN, plain objects and their reactive proxies.
Num(n) == [t |-> "num", n |-> n]
NaN == [t |-> "nan", n |-> 0]
Obj(i) == [t |-> "obj", n |-> i]
Proxy(i) == [t |-> "proxy", n |-> i]
Undef == [t |-> "undef", n |-> 0]
Nums == {Num(n) : n \in 0..MaxVal}

\* toRaw: a proxy answers the RAW flag with its target; anything else is itself.
ToRaw(v) == IF v.t = "proxy" THEN Obj(v.n) ELSE v

\* reactive(): the proxy of a target (one per target); a proxy is returned as is.
Reactive(v) == IF v.t = "obj" THEN Proxy(v.n) ELSE v

\* toReactive: objects are wrapped, primitives are kept.
ToReactive(v) == IF v.t \in {"obj", "proxy"} THEN Reactive(v) ELSE v

\* x === y, which differs from Object.is on NaN.
StrictEquals(x, y) == x = y /\ x.t # "nan"

\* Object.is(x, y): same value; NaN is the same value as NaN.
ObjectIs(x, y) == x = y

\* JavaScript truthiness of a value, as tested by if (...).
Falsy(v) == v.t \in {"nan", "undef"} \/ (v.t = "num" /\ v.n = 0)

\* ------------------------------------------------------- user code (bodies)
\* One statement of a body.  read: acc = c.value; readadd: acc = acc + c.value;
\* write: c.value = v; writeacc: c.value = acc; inc: c.value = (c.value + 1) % K;
\* brz: if (!acc) skip the next n statements; queue: queueJob(c); stop: the
\* disposer of c, that is cleanup(c); commit: the rest of a component's updateFn,
\* with the subtree the component function returned for the value it read.
R(c) == [op |-> "read", c |-> c, v |-> Undef]
RADD(c) == [op |-> "readadd", c |-> c, v |-> Undef]
W(c, v) == [op |-> "write", c |-> c, v |-> v]
WACC(c) == [op |-> "writeacc", c |-> c, v |-> Undef]
INC(c) == [op |-> "inc", c |-> c, v |-> Undef]
BRZ(n) == [op |-> "brz", c |-> None, v |-> Num(n)]
Q(j) == [op |-> "queue", c |-> j, v |-> Undef]
STOP(e) == [op |-> "stop", c |-> e, v |-> Undef]
COMMIT(view) == [op |-> "commit", c |-> view, v |-> Undef]
\* on: onMounted(h), onUnmounted(h) or onUpdated(h) for each h of hooks, in order.
ON(type, hooks) == [op |-> "on", c |-> type, v |-> hooks]
\* throwif: if (acc === v) throw new Error(); tryread: try { acc = c.value } catch {}.
THROWIF(v) == [op |-> "throwif", c |-> None, v |-> v]
TRYR(c) == [op |-> "tryread", c |-> c, v |-> Undef]
\* keys: Object.keys(p), getp: acc = p[k], p being the proxy of the object i.
KEYS(i) == [op |-> "keys", c |-> None, v |-> Num(i)]
GETP(i, k) == [op |-> "getp", c |-> k, v |-> Num(i)]

Plus(x, y) == IF x.t = "num" /\ y.t = "num" THEN Num(x.n + y.n) ELSE NaN
Succ(x) == IF x.t = "num" THEN Num((x.n + 1) % (MaxVal + 1)) ELSE NaN

VARIABLES
  kind,          \* id -> "plain" | "batched" | "computed" | "watch" | "none"
  prog,          \* id -> body of the effect / getter / job
  raw,           \* RefImpl._rawValue
  val,           \* RefImpl._value
  dirty,         \* ComputedRefImpl._dirty
  cval,          \* ComputedRefImpl._value
  deps,          \* targetMap: container -> its dependency Set, in insertion order
  edeps,         \* effect.deps: the dependency sets the effect is a member of
  activeEffect,  \* dep.ts activeEffect
  effectStack,   \* dep.ts effectStack
  pendingJobs,   \* effect.ts pendingJobs, a Set in insertion order
  isFlushing,    \* effect.ts isFlushing
  microtasks,    \* the host's microtask queue
  oldValue,      \* watch: the closure variable oldValue
  callStack,     \* the JavaScript call stack
  created,       \* effects and watchers constructed so far
  ops,           \* number of top-level operations so far
  disposed,      \* observation: effects whose disposer (cleanup) has been called
  lastRead,      \* observation: containers read by the latest run of each effect
  everRead,      \* observation: containers read by any run of each effect
  stopped,       \* observation: cleanup() called from outside since the latest run
  runsEpoch,     \* observation: runs of each effect since the last top-level mutation
  reads,         \* observation: completed top-level reads of each computed since then
  warm,          \* observation: computeds read at top level before the last mutation
  muts,          \* observation: value-changing top-level writes per ref
  lastSet,       \* observation: the latest top-level assignment, if nothing followed it
  cbLog,         \* observation: the (newValue, oldValue) pairs the watch callback got
  setupVal,      \* observation: the source's value when watch() was set up
  qobs,          \* observation: bookkeeping of the job queue
  vals,          \* the values top-level code assigns to refs
  dom,           \* the document: child lists, tags and text of its nodes
  vroot,         \* the root vnode objects passed to render so far
  cvnode,        \* container._vnode: index into vroot, 0 for none
  rlast,         \* observation: the latest render call
  inst,          \* the component instances: isMounted, subTree, where they are mounted
  app,           \* createApp's closure: isMounted, rootVNode, container
  rx,            \* reactive.ts: the raw objects, reactiveMap, the proxies made
  exc,           \* the exception in flight, and what became of the ones thrown
  router         \* router.ts createRouter's closure, window.history, navigations in flight

cfg == <<kind, prog, vals>>
ui == <<dom, vroot, cvnode, rlast, inst>>
store == <<raw, val>>
comp == <<dirty, cval>>
graph == <<deps, edeps>>
estack == <<activeEffect, effectStack>>
queue == <<pendingJobs, isFlushing, microtasks>>
wat == <<oldValue, cbLog, setupVal>>
top == <<created, ops, disposed>>
gRun == <<lastRead, everRead, stopped, runsEpoch>>
gTop == <<reads, warm, muts, lastSet>>
vars == <<kind, prog, raw, val, dirty, cval, deps, edeps, activeEffect, effectStack,
          pendingJobs, isFlushing, microtasks, oldValue, callStack, created, ops, disposed,
          lastRead, everRead, stopped, runsEpoch, reads, warm, muts, lastSet, cbLog, setupVal, qobs,
          vals, dom, vroot, cvnode, rlast, inst, app, rx, exc, router>>

notRouter == <<kind, prog, raw, val, dirty, cval, deps, edeps, activeEffect, effectStack,
               pendingJobs, isFlushing, microtasks, oldValue, callStack, created, ops,
               disposed, lastRead, everRead, stopped, runsEpoch, reads, warm, muts, lastSet,
               cbLog, setupVal, qobs, vals, dom, vroot, cvnode, rlast, inst, app, rx, exc>>

\* ------------------------------------------------- router.ts: createRouter
\* The paths the page navigates to, and the path a guard redirects to.
Locations == {"/a", "/b"}
RedirectTo == "/login"

\* new URL(resolvedPath, origin) after `url.pathname = base + url.pathname`: the
\* href written to the history; the application is served under a base.
Href(path) == [base |-> "/app", path |-> path]

\* parseLocation: `urlPath.replace(base, '') || '/'` strips the base again.
parseLocation(href) == href.path

\* resolveTarget of a string target.
resolveTarget(to) == to

\* createRouter: currentRoute = parseLocation(window.location) of the page at
\* "/app/", one history entry, no guards, no navigation in flight.  pending
\* holds the navigate() calls suspended in `await guard(newLocation, from)`: g is
\* the position of the guard awaited.  started, last, overlap, straight and after
\* observe: the number of push/replace calls, the target of the latest one,
\* whether one was made while another was suspended, whether every guard so far
\* returned undefined, and the arguments of the latest afterEach hook call.
createRouter ==
  [currentRoute |-> "/", entries |-> <<Href("/")>>, beforeGuards |-> 0, pending |-> {},
   started |-> 0, last |-> "/", overlap |-> FALSE, straight |-> TRUE,
   after |-> <<>>]

\* ----------------------------------------------------------------- helpers
\* No exception is in flight and none has been thrown.
NoExc == [on |-> FALSE, thrown |-> 0, escaped |-> 0, caught |-> 0]
Range(s) == {s[i] : i \in DOMAIN s}
Remove(s, x) == SelectSeq(s, LAMBDA y : y # x)
Pop(stk) == SubSeq(stk, 1, Len(stk) - 1)
SetTop(stk, f) == [stk EXCEPT ![Len(stk)] = f]
Quiescent == callStack = <<>>
Cur == callStack[Len(callStack)]

\* A frame of the call stack.  k: "run" (an effect's body), "trig" (trigger's
\* effectsToRun.forEach), "cget" (a computed's get value waiting for its effect),
\* "job" (watch's job waiting for runEffect), "wset" (watch() waiting for its first
\* run), "flush" (flushJobs' pendingJobs.forEach).  readers, must, sel, done and
\* writer are observations kept with a trigger call; late is an observation kept
\* with a run: it started after the effect's disposer had been called.
Frame(k, e) ==
  [k |-> k, e |-> e, pc |-> 1, acc |-> Undef, aux |-> <<>>,
   readers |-> {}, must |-> {}, sel |-> {}, done |-> {}, writer |-> None,
   late |-> FALSE]

\* The effect whose body is executing: the innermost "run" frame of the stack.
RECURSIVE RunningEffect(_)
RunningEffect(stk) ==
  IF stk = <<>> THEN None
  ELSE IF stk[Len(stk)].k = "run" THEN stk[Len(stk)].e
  ELSE RunningEffect(Pop(stk))

\* An entry of the host's microtask queue: flushJobs, or the invocation of the
\* mount or update callbacks of the instance k.
Task(t, k) == [t |-> t, k |-> k]

NoLastSet == [on |-> FALSE, same |-> FALSE, r |-> None, v |-> Undef, before |-> Undef,
              runs |-> [e \in Effects |-> 0]]

ZeroRuns == [e \in Effects |-> 0]

\* ------------------------------------------------------------------ dep.ts
\* track that returns before registering the effect.
TrackDepsNever(dp, ae, c) == dp

\* track: deps.add(activeEffect) unless there is no active effect or it is a member.
TrackDeps(dp, ae, c) ==
  IF ae = None \/ ae \in Range(dp[c]) THEN dp ELSE [dp EXCEPT ![c] = Append(@, ae)]

\* track that adds the effect to the set and not the set to the effect.
TrackEdgesNever(ed, dp, ae, c) == ed

\* track: activeEffect.deps.add(deps), under the same condition.
TrackEdges(ed, dp, ae, c) ==
  IF ae = None \/ ae \in Range(dp[c]) THEN ed ELSE [ed EXCEPT ![ae] = @ \cup {c}]

\* trigger that does not exclude the running effect.
EffectsToRunAll(dp, c, ae) == dp[c]

\* trigger that forgets the first registered effect.
EffectsToRunSkipFirst(dp, c, ae) ==
  IF dp[c] = <<>> THEN <<>> ELSE SelectSeq(Tail(dp[c]), LAMBDA e : e # ae)

\* trigger: effectsToRun, the dependency set without the active effect, in
\* insertion order.
EffectsToRun(dp, c, ae) == SelectSeq(dp[c], LAMBDA e : e # ae)

\* cleanup that only clears the effect's own list and leaves it in the sets.
CleanupDepsKeep(dp, ed, e) == dp

\* cleanup: deps.delete(effect) for every dependency set of the effect.
CleanupDeps(dp, ed, e) ==
  [c \in DOMAIN dp |-> IF c \in ed[e] THEN Remove(dp[c], e) ELSE dp[c]]

\* cleanup: effect.deps.clear().
CleanupEdges(ed, e) == [ed EXCEPT ![e] = {}]

\* popEffect: activeEffect = effectStack[effectStack.length - 1] || null, on the
\* stack after the pop.
ActiveAfterPop(es) == IF es = <<>> THEN None ELSE es[Len(es)]

\* --------------------------------------------------------------- effect.ts
\* options.scheduler of an effect, by the way it was constructed: computed()
\* gives the dirty-flag scheduler, watch() gives job, scheduler: queueJob batches,
\* effect(fn) has none and runs inline.
SchedulerOf(k) ==
  CASE k = "computed" -> "dirtyFlag"
    [] k = "watch" -> "job"
    [] k = "batched" -> "queueJob"
    [] OTHER -> "inline"

\* A scheduler that notifies at every call.
SchedulerNotifiesAlways(d, x) == TRUE

\* The scheduler of a computed's effect: if (!this._dirty) { ... }.
SchedulerNotifies(d, x) == ~d[x]

\* get value() that never clears the dirty flag.
ComputedCleanNever(d, x) == d

\* ComputedRefImpl get value(): this._dirty = false after the effect ran.
ComputedClean(d, x) == [d EXCEPT ![x] = FALSE]

\* watch's job that never rotates oldValue.
WatchRotateNever(ov, w, v) == ov

\* watch's job: oldValue = newValue.
WatchRotate(ov, w, v) == [ov EXCEPT ![w] = v]

\* pendingJobs as an array: push without de-duplication.
AddJobPush(pj, j) == Append(pj, j)

\* queueJob: pendingJobs.add(job); a Set keeps a member's first position.
AddJob(pj, j) == IF j \in Range(pj) THEN pj ELSE Append(pj, j)

\* The observations a trigger call carries: who read c in their latest run
\* (readers), who of them is owed a run (must), who was selected (sel).
TrigFrame(c, dp, ae, lr, st, writer) ==
  LET sel == EffectsToRun(dp, c, ae)
      rd == {e \in Effects : c \in lr[e]}
  IN [Frame("trig", c) EXCEPT
        !.aux = sel, !.sel = Range(sel), !.readers = rd,
        !.must = {e \in rd : ~st[e] /\ e # writer}, !.writer = writer]

\* effectFn(): cleanup(effectFn); pushEffect(effectFn); then fn() runs as a new frame.
StartRun(e, stk, dp, ed, lr) ==
  /\ Len(stk) < MaxDepth
  /\ deps' = CleanupDeps(dp, ed, e)
  /\ edeps' = CleanupEdges(ed, e)
  /\ effectStack' = Append(effectStack, e)
  /\ activeEffect' = e
  /\ callStack' = Append(stk, [Frame("run", e) EXCEPT !.late = e \in disposed])
  /\ lastRead' = [lr EXCEPT ![e] = {}]
  /\ everRead' = [x \in Effects |-> everRead[x] \cup lr[x]]
  /\ stopped' = [stopped EXCEPT ![e] = FALSE]
  /\ runsEpoch' = [runsEpoch EXCEPT ![e] = @ + 1]

\* RefImpl set value(newValue), called with the stack stk; trigger(ref, 'value')
\* becomes a new frame.
SetRef(r, v, stk, dp, lr, writer) ==
  LET rawNewValue == ToRaw(v) IN
  IF ObjectIs(rawNewValue, raw[r])
  THEN /\ callStack' = stk
       /\ UNCHANGED store
  ELSE /\ Len(stk) < MaxDepth
       /\ raw' = [raw EXCEPT ![r] = rawNewValue]
       /\ val' = [val EXCEPT ![r] = ToReactive(v)]
       /\ callStack' = Append(stk, TrigFrame(r, dp, activeEffect, lr, stopped, writer))

\* queueJob(job), called with the stack stk.
QueueJobCall(j, stk) ==
  /\ pendingJobs' = AddJob(pendingJobs, j)
  /\ IF ~isFlushing
     THEN /\ isFlushing' = TRUE
          /\ microtasks' = Append(microtasks, Task("flushJobs", None))
     ELSE UNCHANGED <<isFlushing, microtasks>>
  /\ qobs' = [qobs EXCEPT
        !.calls[j] = @ + 1,
        !.owed = @ \cup {j},
        !.during = IF \E i \in DOMAIN stk : stk[i].k = "flush" THEN @ \cup {j} ELSE @]

\* --------------------------------------------------- top-level operations
\* A top-level operation: synchronous code running with an empty call stack.
TopOp == /\ Quiescent
         /\ ops < MaxOps
         /\ ops' = ops + 1

\* effect(fn): constructs the effect and, as it is not lazy, runs it at once.
CreateEffect(e) ==
  /\ TopOp
  /\ kind[e] = "plain" /\ e \notin created
  /\ created' = created \cup {e}
  /\ StartRun(e, <<>>, deps, edeps, lastRead)
  /\ lastSet' = NoLastSet
  /\ UNCHANGED <<cfg, router, rx, exc, app, ui, store, comp, queue, wat, disposed, reads, warm, muts, qobs>>

\* watch(source, cb) without immediate: builds the lazy effect with scheduler job
\* and calls runEffect() once to capture oldValue.
CreateWatch(w) ==
  /\ TopOp
  /\ kind[w] = "watch" /\ w \notin created
  /\ created' = created \cup {w}
  /\ StartRun(w, <<Frame("wset", w)>>, deps, edeps, lastRead)
  /\ lastSet' = NoLastSet
  /\ UNCHANGED <<cfg, router, rx, exc, app, ui, store, comp, queue, wat, disposed, reads, warm, muts, qobs>>

\* r.value = v in top-level code.
TopWrite(r, v) ==
  /\ TopOp
  /\ kind[r] = "ref"
  /\ SetRef(r, v, <<>>, deps, lastRead, None)
  /\ lastSet' = [on |-> TRUE, same |-> (ToRaw(v) = raw[r]), r |-> r, v |-> v,
                 before |-> val[r], runs |-> runsEpoch]
  /\ IF raw'[r] # raw[r]
     THEN /\ muts' = [muts EXCEPT ![r] = @ + 1]
          /\ runsEpoch' = ZeroRuns
          /\ reads' = [x \in Computeds |-> 0]
          /\ warm' = warm \cup {x \in Computeds : reads[x] > 0}
     ELSE UNCHANGED <<muts, runsEpoch, reads, warm>>
  /\ UNCHANGED <<cfg, router, rx, exc, app, ui, comp, graph, estack, queue, wat, created, disposed, lastRead,
                 everRead, stopped, qobs>>

\* x.value read in top-level code, the computed being clean: trackComputed finds
\* no active effect and the cached value is returned.
TopReadClean(x) ==
  /\ TopOp
  /\ kind[x] = "computed" /\ ~dirty[x]
  /\ reads' = [reads EXCEPT ![x] = @ + 1]
  /\ lastSet' = NoLastSet
  /\ UNCHANGED <<cfg, router, rx, exc, app, ui, store, comp, graph, estack, queue, wat, callStack, created,
                 disposed, gRun, warm, muts, qobs>>

\* x.value read in top-level code, the computed being dirty: this._effect() runs.
TopReadDirty(x) ==
  /\ TopOp
  /\ kind[x] = "computed" /\ dirty[x]
  /\ StartRun(x, <<Frame("cget", x)>>, deps, edeps, lastRead)
  /\ lastSet' = NoLastSet
  /\ UNCHANGED <<cfg, router, rx, exc, app, ui, store, comp, queue, wat, created, disposed, reads, warm, muts, qobs>>

\* The disposer returned by watch() / watchEffect(), or cleanup(effect) itself,
\* called in top-level code.
Stop(e) ==
  /\ TopOp
  /\ e \in created
  /\ deps' = CleanupDeps(deps, edeps, e)
  /\ edeps' = CleanupEdges(edeps, e)
  /\ stopped' = [stopped EXCEPT ![e] = TRUE]
  /\ disposed' = disposed \cup {e}
  /\ lastSet' = NoLastSet
  /\ UNCHANGED <<cfg, router, rx, exc, app, ui, store, comp, estack, queue, wat, callStack, created,
                 lastRead, everRead, runsEpoch, reads, warm, muts, qobs>>

\* queueJob(j) in top-level code.
QueueJob(j) ==
  /\ TopOp
  /\ kind[j] = "batched"
  /\ QueueJobCall(j, <<>>)
  /\ lastSet' = NoLastSet
  /\ UNCHANGED <<cfg, router, rx, exc, app, ui, store, comp, graph, estack, wat, callStack, created, disposed,
                 gRun, reads, warm, muts>>

\* The host runs the next microtask once the synchronous code has returned:
\* flushJobs() starts its pendingJobs.forEach.
RunMicrotask ==
  /\ Quiescent
  /\ microtasks # <<>> /\ Head(microtasks).t = "flushJobs"
  /\ microtasks' = Tail(microtasks)
  /\ callStack' = <<Frame("flush", None)>>
  /\ qobs' = [qobs EXCEPT !.execThis = [j \in Jobs |-> 0], !.batch = qobs.calls,
                          !.calls = [j \in Jobs |-> 0], !.during = {}, !.lateRun = {}]
  /\ lastSet' = NoLastSet
  /\ UNCHANGED <<cfg, router, rx, exc, app, ui, store, comp, graph, estack, pendingJobs, isFlushing, wat, top,
                 gRun, reads, warm, muts>>

\* ------------------------------------------------ steps of the running call
Running == ~exc.on /\ callStack # <<>> /\ Cur.k = "run" /\ Cur.pc <= Len(prog[Cur.e])
Instr == prog[Cur.e][Cur.pc]
Combine(op, acc, v) == IF op = "readadd" THEN Plus(acc, v) ELSE v
Advance(f) == [f EXCEPT !.pc = @ + 1]

\* A body reads r.value: RefImpl get value(): trackRefValue(this); return this._value.
ExecReadRef ==
  /\ Running
  /\ Instr.op \in {"read", "readadd", "tryread"} /\ Instr.c \in Refs
  /\ deps' = TrackDeps(deps, activeEffect, Instr.c)
  /\ edeps' = TrackEdges(edeps, deps, activeEffect, Instr.c)
  /\ callStack' = SetTop(callStack,
        [Advance(Cur) EXCEPT !.acc = Combine(Instr.op, Cur.acc, val[Instr.c])])
  /\ lastRead' = [lastRead EXCEPT ![Cur.e] = @ \cup {Instr.c}]
  /\ everRead' = [everRead EXCEPT ![Cur.e] = @ \cup {Instr.c}]
  /\ UNCHANGED <<cfg, router, rx, exc, app, ui, store, comp, estack, queue, wat, top, stopped, runsEpoch, gTop, qobs>>

\* A body reads x.value of a clean computed: trackComputed(this); return this._value.
ExecReadClean ==
  /\ Running
  /\ Instr.op \in {"read", "readadd", "tryread"} /\ Instr.c \in Computeds /\ ~dirty[Instr.c]
  /\ deps' = TrackDeps(deps, activeEffect, Instr.c)
  /\ edeps' = TrackEdges(edeps, deps, activeEffect, Instr.c)
  /\ callStack' = SetTop(callStack,
        [Advance(Cur) EXCEPT !.acc = Combine(Instr.op, Cur.acc, cval[Instr.c])])
  /\ lastRead' = [lastRead EXCEPT ![Cur.e] = @ \cup {Instr.c}]
  /\ everRead' = [everRead EXCEPT ![Cur.e] = @ \cup {Instr.c}]
  /\ UNCHANGED <<cfg, router, rx, exc, app, ui, store, comp, estack, queue, wat, top, stopped, runsEpoch, gTop, qobs>>

\* A body reads x.value of a dirty computed: trackComputed(this), then
\* this._effect() runs; the statement completes when that run returns.
ExecReadDirty ==
  /\ Running
  /\ Instr.op \in {"read", "readadd", "tryread"} /\ Instr.c \in Computeds /\ dirty[Instr.c]
  /\ StartRun(Instr.c, Append(callStack, Frame("cget", Instr.c)),
              TrackDeps(deps, activeEffect, Instr.c),
              TrackEdges(edeps, deps, activeEffect, Instr.c),
              [lastRead EXCEPT ![Cur.e] = @ \cup {Instr.c}])
  /\ UNCHANGED <<cfg, router, rx, exc, app, ui, store, comp, queue, wat, top, gTop, qobs>>

\* A body assigns r.value = v (a constant, or the value it read last).
ExecWrite ==
  /\ Running
  /\ Instr.op \in {"write", "writeacc"}
  /\ SetRef(Instr.c, IF Instr.op = "write" THEN Instr.v ELSE Cur.acc,
            SetTop(callStack, Advance(Cur)), deps, lastRead, Cur.e)
  /\ UNCHANGED <<cfg, router, rx, exc, app, ui, comp, graph, estack, queue, wat, top, gRun, gTop, qobs>>

\* A body runs r.value = (r.value + 1) % K: the getter (with its track), then the setter.
ExecInc ==
  /\ Running
  /\ Instr.op = "inc"
  /\ LET dp == TrackDeps(deps, activeEffect, Instr.c)
         ed == TrackEdges(edeps, deps, activeEffect, Instr.c)
         lr == [lastRead EXCEPT ![Cur.e] = @ \cup {Instr.c}]
     IN /\ deps' = dp
        /\ edeps' = ed
        /\ lastRead' = lr
        /\ everRead' = [everRead EXCEPT ![Cur.e] = @ \cup {Instr.c}]
        /\ SetRef(Instr.c, Succ(val[Instr.c]), SetTop(callStack, Advance(Cur)),
                  dp, lr, Cur.e)
  /\ UNCHANGED <<cfg, router, rx, exc, app, ui, comp, estack, queue, wat, top, stopped, runsEpoch, gTop, qobs>>

\* A body tests the value it read last: if (!acc) the next n statements are skipped.
ExecBranch ==
  /\ Running
  /\ Instr.op = "brz"
  /\ callStack' = SetTop(callStack,
        [Cur EXCEPT !.pc = IF Falsy(Cur.acc) THEN @ + 1 + Instr.v.n ELSE @ + 1])
  /\ UNCHANGED <<cfg, router, rx, exc, app, ui, store, comp, graph, estack, queue, wat, top, gRun, gTop, qobs>>

\* A body calls queueJob(j).
ExecQueue ==
  /\ Running
  /\ Instr.op = "queue"
  /\ QueueJobCall(Instr.c, callStack)
  /\ callStack' = SetTop(callStack, Advance(Cur))
  /\ UNCHANGED <<cfg, router, rx, exc, app, ui, store, comp, graph, estack, wat, top, gRun, gTop>>

\* A body calls the disposer of an effect or watcher: cleanup(effect).
ExecStop ==
  /\ Running
  /\ Instr.op = "stop"
  /\ deps' = CleanupDeps(deps, edeps, Instr.c)
  /\ edeps' = CleanupEdges(edeps, Instr.c)
  /\ stopped' = [stopped EXCEPT ![Instr.c] = TRUE]
  /\ disposed' = disposed \cup {Instr.c}
  /\ callStack' = SetTop(callStack, Advance(Cur))
  /\ UNCHANGED <<cfg, router, rx, exc, app, ui, store, comp, estack, queue, wat, created, ops, lastRead, everRead,
                 runsEpoch, gTop, qobs>>

Triggering == ~exc.on /\ callStack # <<>> /\ Cur.k = "trig" /\ Cur.aux # <<>>
Selected == Head(Cur.aux)
Served(f) == [f EXCEPT !.aux = Tail(@), !.done = @ \cup {Head(f.aux)}]

\* trigger's forEach reaches an effect without scheduler: effect().
TriggerInline ==
  /\ Triggering
  /\ SchedulerOf(kind[Selected]) = "inline"
  /\ StartRun(Selected, SetTop(callStack, Served(Cur)), deps, edeps, lastRead)
  /\ UNCHANGED <<cfg, router, rx, exc, app, ui, store, comp, queue, wat, top, gTop, qobs>>

\* trigger's forEach reaches a computed's effect: its scheduler sets the dirty flag
\* and, on the clean-to-dirty transition only, calls triggerComputed(this).
TriggerDirtyFlag ==
  /\ Triggering
  /\ SchedulerOf(kind[Selected]) = "dirtyFlag"
  /\ IF SchedulerNotifies(dirty, Selected)
     THEN /\ Len(callStack) < MaxDepth
          /\ dirty' = [dirty EXCEPT ![Selected] = TRUE]
          /\ callStack' = Append(SetTop(callStack, Served(Cur)),
                TrigFrame(Selected, deps, activeEffect, lastRead, stopped,
                          RunningEffect(callStack)))
     ELSE /\ callStack' = SetTop(callStack, Served(Cur))
          /\ UNCHANGED dirty
  /\ UNCHANGED <<cfg, router, rx, exc, app, ui, store, cval, graph, estack, queue, wat, top, gRun, gTop, qobs>>

\* trigger's forEach reaches a watch effect: its scheduler is job, which starts
\* with runEffect().
TriggerJob ==
  /\ Triggering
  /\ SchedulerOf(kind[Selected]) = "job"
  /\ StartRun(Selected,
              Append(SetTop(callStack, Served(Cur)), Frame("job", Selected)),
              deps, edeps, lastRead)
  /\ UNCHANGED <<cfg, router, rx, exc, app, ui, store, comp, queue, wat, top, gTop, qobs>>

\* trigger's forEach reaches an effect with scheduler: queueJob.
TriggerQueueJob ==
  /\ Triggering
  /\ SchedulerOf(kind[Selected]) = "queueJob"
  /\ QueueJobCall(Selected, callStack)
  /\ callStack' = SetTop(callStack, Served(Cur))
  /\ UNCHANGED <<cfg, router, rx, exc, app, ui, store, comp, graph, estack, wat, top, gRun, gTop>>

\* trigger's forEach is done: trigger returns.
TriggerDone ==
  /\ ~exc.on /\ callStack # <<>> /\ Cur.k = "trig" /\ Cur.aux = <<>>
  /\ callStack' = Pop(callStack)
  /\ UNCHANGED <<cfg, router, rx, exc, app, ui, store, comp, graph, estack, queue, wat, top, gRun, gTop, qobs>>

Returning == ~exc.on /\ callStack # <<>> /\ Cur.k = "run" /\ Cur.pc > Len(prog[Cur.e])
Below == IF Len(callStack) >= 2 THEN callStack[Len(callStack) - 1].k ELSE "top"

\* effectFn's finally: popEffect().
PopEffect ==
  /\ effectStack' = Pop(effectStack)
  /\ activeEffect' = ActiveAfterPop(Pop(effectStack))

\* An effect called by effect() (in top-level code or in a component's commit), by
\* trigger or by flushJobs returns.
ReturnPlain ==
  /\ Returning
  /\ Below \in {"top", "trig", "flush", "run"}
  /\ PopEffect
  /\ callStack' = Pop(callStack)
  /\ UNCHANGED <<cfg, router, rx, exc, app, ui, store, comp, graph, queue, wat, top, gRun, gTop, qobs>>

\* this._effect() returns in get value(): the value is cached, the flag cleared,
\* and the read that asked for it completes.
ReturnComputed ==
  /\ Returning
  /\ Below = "cget"
  /\ PopEffect
  /\ cval' = [cval EXCEPT ![Cur.e] = Cur.acc]
  /\ dirty' = ComputedClean(dirty, Cur.e)
  /\ LET stk == Pop(Pop(callStack)) IN
     IF stk = <<>>
     THEN /\ callStack' = stk
          /\ reads' = [reads EXCEPT ![Cur.e] = @ + 1]
     ELSE LET f == stk[Len(stk)]
              i == prog[f.e][f.pc]
          IN /\ callStack' = SetTop(stk,
                   [Advance(f) EXCEPT !.acc = Combine(i.op, f.acc, Cur.acc)])
             /\ UNCHANGED reads
  /\ UNCHANGED <<cfg, router, rx, exc, app, ui, store, graph, queue, wat, top, gRun, warm, muts, lastSet, qobs>>

\* runEffect() returns in watch's job: callback(newValue, oldValue); oldValue = newValue.
ReturnWatchJob ==
  /\ Returning
  /\ Below = "job"
  /\ PopEffect
  /\ cbLog' = Append(cbLog, <<Cur.acc, oldValue[Cur.e], Cur.late>>)
  /\ oldValue' = WatchRotate(oldValue, Cur.e, Cur.acc)
  /\ callStack' = Pop(Pop(callStack))
  /\ UNCHANGED <<cfg, router, rx, exc, app, ui, store, comp, graph, queue, setupVal, top, gRun, gTop, qobs>>

\* runEffect() returns in watch(): oldValue = runEffect().
ReturnWatchSetup ==
  /\ Returning
  /\ Below = "wset"
  /\ PopEffect
  /\ oldValue' = [oldValue EXCEPT ![Cur.e] = Cur.acc]
  /\ setupVal' = Cur.acc
  /\ callStack' = Pop(Pop(callStack))
  /\ UNCHANGED <<cfg, router, rx, exc, app, ui, store, comp, graph, queue, cbLog, top, gRun, gTop, qobs>>

\* flushJobs' forEach reaches the next member of pendingJobs (members added during
\* the iteration included, as Set.prototype.forEach visits them): job().
FlushJob ==
  /\ ~exc.on /\ callStack # <<>> /\ Cur.k = "flush" /\ Cur.pc <= Len(pendingJobs)
  /\ LET j == pendingJobs[Cur.pc] IN
     /\ StartRun(j, SetTop(callStack, Advance(Cur)), deps, edeps, lastRead)
     /\ qobs' = [qobs EXCEPT
           !.execThis[j] = @ + 1,
           !.owed = @ \ {j},
           !.lateRun = IF j \in qobs.during /\ qobs.batch[j] = 0 THEN @ \cup {j} ELSE @]
  /\ UNCHANGED <<cfg, router, rx, exc, app, ui, store, comp, queue, wat, top, gTop>>

\* flushJobs' forEach is done: pendingJobs.clear(); isFlushing = false.
FlushDone ==
  /\ ~exc.on /\ callStack # <<>> /\ Cur.k = "flush" /\ Cur.pc > Len(pendingJobs)
  /\ pendingJobs' = <<>>
  /\ isFlushing' = FALSE
  /\ callStack' = Pop(callStack)
  /\ qobs' = [qobs EXCEPT !.calls = [j \in Jobs |-> 0]]
  /\ UNCHANGED <<cfg, router, rx, exc, app, ui, store, comp, graph, estack, microtasks, wat, top, gRun, gTop>>

\* ------------------------------------------------------------- renderer.ts
\* The document.  Nodes are numbered; the containers are nodes 1 and 2, elements
\* and text nodes are created after them.  kids[n] is n's childNodes, tag[n] its
\* tag name ("#text" for a text node), txt[n] its text or its attribute; log is the
\* observation of what the running render call did.
ContainerEls == {1, 2}

EmptyDom ==
  [kids |-> [n \in ContainerEls |-> <<>>],
   tag |-> [n \in ContainerEls |-> "container"],
   txt |-> [n \in ContainerEls |-> ""],
   next |-> 3,
   log |-> <<>>]

\* A vnode: createVNode(type, {key, id: txt}, kids).  type is a tag name, "Text" for
\* the Text symbol, "Component" for a component function, or "#prim" for a child
\* that is a string and no vnode, "Fragment" for the Fragment symbol; el is the
\* node the vnode was realized as, 0 for null; component is the instance of a
\* component vnode; anchor is the comment node of a mounted fragment.
VNode(type, key, txt, kids) ==
  [type |-> type, key |-> key, txt |-> txt, kids |-> kids, el |-> 0, component |-> None,
   anchor |-> 0]

\* A child that is a string.
Prim(t) == VNode("#prim", None, t, <<>>)

\* document.createElement / createTextNode: the new node is st.next.
CreateNode(st, tag, txt) ==
  [st EXCEPT !.kids = @ @@ (st.next :> <<>>),
             !.tag = @ @@ (st.next :> tag),
             !.txt = @ @@ (st.next :> txt),
             !.next = @ + 1]

\* The children of a node from the anchor on, none for a null anchor.
FromAnchor(ks, anchor) ==
  IF \E i \in DOMAIN ks : ks[i] = anchor
  THEN SubSeq(ks, CHOOSE i \in DOMAIN ks : ks[i] = anchor, Len(ks))
  ELSE <<>>

\* container.insertBefore(el, anchor): el becomes the child before the anchor, the
\* last child for a null anchor.  An anchor that is passed is the comment node of
\* the fragment being mounted or patched, which is a child of the container.
InsertBefore(st, parent, n, anchor) ==
  LET ks == st.kids[parent]
      tl == FromAnchor(ks, anchor)
  IN [st EXCEPT !.kids[parent] = SubSeq(ks, 1, Len(ks) - Len(tl)) \o <<n>> \o tl]

\* el.parentNode.removeChild(el), if el is a node that has a parent.
RemoveChild(st, n) == [st EXCEPT !.kids = [p \in DOMAIN @ |-> Remove(@[p], n)]]

\* An observation is appended to the log.
Logged(st, ev, key, n, i, j) ==
  [st EXCEPT !.log = Append(@, [ev |-> ev, key |-> key, el |-> n, i |-> i, j |-> j])]

RECURSIVE mount(_, _, _, _)
RECURSIVE mountChildren(_, _, _, _, _)
RECURSIVE unmount(_, _)
RECURSIVE unmountChildren(_, _, _)
RECURSIVE patch(_, _, _, _, _)
RECURSIVE patchChildren(_, _, _, _, _)
RECURSIVE keyedPass(_, _, _, _, _, _, _, _)

\* mount(vnode, container, anchor): mountText, mountFragment or mountElement.  The
\* result is the document and the vnode with el (anchor, for a fragment) assigned.
mount(v, parent, anchor, st) ==
  LET n == st.next IN
  IF v.type = "Text"
  THEN [st |-> Logged(InsertBefore(CreateNode(st, "#text", v.txt), parent, n, anchor),
                      "mount", v.key, n, 0, 0),
        v |-> [v EXCEPT !.el = n]]
  ELSE IF v.type = "Fragment"
  THEN \* the comment node goes in first, the children go before it
       LET r == mountChildren(v.kids, 1, parent, n,
                              InsertBefore(CreateNode(st, "#comment", ""), parent, n, anchor))
       IN [st |-> Logged(r.st, "mount", v.key, n, 0, 0),
           v |-> [v EXCEPT !.anchor = n, !.kids = r.kids]]
  ELSE LET r == mountChildren(v.kids, 1, n, 0, CreateNode(st, v.type, v.txt))
       IN [st |-> Logged(InsertBefore(r.st, parent, n, anchor), "mount", v.key, n, 0, 0),
           v |-> [v EXCEPT !.el = n, !.kids = r.kids]]

\* children.forEach of mountElement (anchor null) and of mountFragment: a vnode
\* child is mounted, any other child becomes a text node.
mountChildren(kids, i, parent, anchor, st) ==
  IF i > Len(kids) THEN [st |-> st, kids |-> kids]
  ELSE IF kids[i].type = "#prim"
  THEN mountChildren(kids, i + 1, parent, anchor,
                     InsertBefore(CreateNode(st, "#text", kids[i].txt), parent, st.next,
                                  anchor))
  ELSE LET r == mount(kids[i], parent, anchor, st)
       IN mountChildren([kids EXCEPT ![i] = r.v], i + 1, parent, anchor, r.st)

\* unmount(vnode) of a fragment, element or text vnode: the vnode children are
\* unmounted, then the anchor of a fragment, or el, is removed from its parent.
unmount(v, st) ==
  RemoveChild(Logged(unmountChildren(v.kids, 1, st), "unmount", v.key,
                     IF v.type = "Fragment" THEN v.anchor ELSE v.el, 0, 0),
              IF v.type = "Fragment" THEN v.anchor ELSE v.el)

unmountChildren(kids, i, st) ==
  IF i > Len(kids) THEN st
  ELSE IF kids[i].type = "#prim" THEN unmountChildren(kids, i + 1, st)
  ELSE unmountChildren(kids, i + 1, unmount(kids[i], st))

\* setProp(el, 'id', value) and textContent = value.
SetText(st, n, txt) == IF n \in DOMAIN st.txt THEN [st EXCEPT !.txt[n] = txt] ELSE st

\* Array.from(container.childNodes).find(n => n.nodeType === Node.TEXT_NODE), 0 if none.
FirstTextNode(st, el) ==
  LET is == {i \in DOMAIN st.kids[el] : st.tag[st.kids[el][i]] = "#text"}
  IN IF is = {} THEN 0 ELSE st.kids[el][CHOOSE i \in is : \A k \in is : i <= k]

IsPrim(c) == c.type = "#prim"

\* oldKeyed: the Map from key to old child, as the sequence of its entries <<key,
\* index of the child>> in insertion order; set() on a present key replaces the
\* value where the entry is.
MapSet(m, k, i) ==
  IF \E n \in DOMAIN m : m[n][1] = k
  THEN [n \in DOMAIN m |-> IF m[n][1] = k THEN <<k, i>> ELSE m[n]]
  ELSE Append(m, <<k, i>>)

\* The lookup that takes whatever entry comes first in the Map, whatever its key.
MapGetFirst(m, k) == IF m = <<>> THEN 0 ELSE m[1][2]

\* oldKeyed.get(key): the index of the old child under that key, 0 for undefined.
MapGet(m, k) ==
  IF \E n \in DOMAIN m : m[n][1] = k THEN (CHOOSE e \in Range(m) : e[1] = k)[2] ELSE 0

MapDelete(m, k) == SelectSeq(m, LAMBDA e : e[1] # k)

RECURSIVE OldKeyed(_, _)
OldKeyed(kids, i) ==
  IF i = 0 THEN <<>>
  ELSE IF kids[i].key # None THEN MapSet(OldKeyed(kids, i - 1), kids[i].key, i)
  ELSE OldKeyed(kids, i - 1)

\* oldUnkeyed: the old children without key, by their indices, in order.
RECURSIVE OldUnkeyed(_, _)
OldUnkeyed(kids, i) ==
  IF i = 0 THEN <<>>
  ELSE IF kids[i].key = None THEN Append(OldUnkeyed(kids, i - 1), i)
  ELSE OldUnkeyed(kids, i - 1)

\* patchChildren: the old child a new child is matched with, by its index, 0 for
\* undefined: oldKeyed.get(key) for a keyed child, oldUnkeyed[unkeyedIndex] otherwise.
MatchOld(c, pool, unk, uidx) ==
  IF c.key # None THEN MapGet(pool, c.key)
  ELSE IF uidx + 1 <= Len(unk) THEN unk[uidx + 1] ELSE 0

\* oldKeyed.forEach(child => unmount(child)), then the unkeyed children from
\* unkeyedIndex on.
RECURSIVE unmountLeftover(_, _, _)
unmountLeftover(idxs, oldC, st) ==
  IF idxs = <<>> THEN st
  ELSE unmountLeftover(Tail(idxs), oldC,
                       unmount(oldC[Head(idxs)],
                               Logged(st, "drop", oldC[Head(idxs)].key, 0, Head(idxs), 0)))

\* A patch that takes every pair of vnodes for vnodes of different types.
SameTypeNever(old, new) == FALSE

\* patch: oldVNode.type === newVNode.type.
SameType(old, new) == old.type = new.type

\* patch(oldVNode, newVNode, container, anchor).  The result is the document and
\* the new vnode with el (and its children's el) assigned.
patch(old, new, parent, anchor, st) ==
  IF ~SameType(old, new) THEN mount(new, parent, anchor, unmount(old, st))
  ELSE IF new.type = "Text"
  THEN \* patchText
       [st |-> Logged(IF old.txt # new.txt THEN SetText(st, old.el, new.txt) ELSE st,
                      "patch", new.key, old.el, 0, 0),
        v |-> [new EXCEPT !.el = old.el]]
  ELSE IF new.type = "Fragment"
  THEN \* patchFragment: the anchor is taken over, then patchChildren on the container
       LET r == patchChildren(old.kids, new.kids, parent, old.anchor,
                              Logged(st, "patch", new.key, old.anchor, 0, 0))
       IN [st |-> r.st, v |-> [new EXCEPT !.anchor = old.anchor, !.kids = r.kids]]
  ELSE \* patchElement: the props, then patchChildren(oldVNode, newVNode, el)
       LET el == old.el
           s1 == Logged(IF old.txt # new.txt THEN SetText(st, el, new.txt) ELSE st,
                        "patch", new.key, el, 0, 0)
           r == patchChildren(old.kids, new.kids, el, 0, s1)
       IN [st |-> r.st, v |-> [new EXCEPT !.el = el, !.kids = r.kids]]

\* patchChildren(oldVNode, newVNode, container), anchor being newVNode.anchor || null.
\* The result is the document and the new children with el assigned.
patchChildren(oldC, newC, container, anchor, st) ==
  IF Len(oldC) = 1 /\ Len(newC) = 1 /\ IsPrim(oldC[1]) /\ IsPrim(newC[1])
  THEN \* both lists are one text-like entry: replace the text
       LET tn == FirstTextNode(st, container)
       IN [st |-> IF oldC[1].txt # newC[1].txt /\ tn # 0
                  THEN SetText(st, tn, newC[1].txt) ELSE st,
           kids |-> newC]
  ELSE IF (\E i \in DOMAIN oldC : IsPrim(oldC[i]))
          \/ (\E i \in DOMAIN newC : IsPrim(newC[i]))
  THEN \* mixed content: the vnode children are unmounted, the container is emptied
       \* up to the anchor, the new children are mounted
       LET s2 == unmountChildren(oldC, 1, st)
       IN mountChildren(newC, 1, container, anchor,
                        [s2 EXCEPT !.kids[container] = FromAnchor(@, anchor)])
  ELSE keyedPass(newC, 1, OldKeyed(oldC, Len(oldC)), 0, oldC, container, anchor, st)

\* patchChildren, vnode children only: newChildren.forEach from the j-th child on,
\* with the Map oldKeyed as it is now (pool) and unkeyedIndex (uidx); then the
\* leftover old children are unmounted.
keyedPass(newC, j, pool, uidx, oldC, el, anchor, st) ==
  LET unk == OldUnkeyed(oldC, Len(oldC)) IN
  IF j > Len(newC)
  THEN [st |-> unmountLeftover([n \in DOMAIN pool |-> pool[n][2]] \o
                                 SubSeq(unk, uidx + 1, Len(unk)), oldC, st),
        kids |-> newC]
  ELSE LET c == newC[j]
           m == MatchOld(c, pool, unk, uidx)
           r == IF m # 0
                THEN patch(oldC[m], c, el, anchor, Logged(st, "match", c.key, el, m, j))
                ELSE mount(c, el, anchor, Logged(st, "fresh", c.key, el, 0, j))
       IN keyedPass([newC EXCEPT ![j] = r.v], j + 1,
                    IF c.key # None /\ m # 0 THEN MapDelete(pool, c.key) ELSE pool,
                    IF c.key = None THEN uidx + 1 ELSE uidx,
                    oldC, el, anchor, r.st)

\* The output under a node: tags, attributes and text, in order and nesting, without
\* the nodes' identities.
RECURSIVE Shape(_, _)
Shape(st, n) ==
  [tag |-> st.tag[n], txt |-> st.txt[n],
   kids |-> [i \in DOMAIN st.kids[n] |-> Shape(st, st.kids[n][i])]]

\* render(vnode, container), vnode being vr[id], or null for id = 0.
render(id, vr, c) ==
  LET old == cvnode[c]
      st == [dom EXCEPT !.log = <<>>]
  IN /\ Quiescent
     /\ ops < MaxRenders
     /\ ops' = ops + 1
     /\ IF id = 0
        THEN /\ dom' = IF old # 0 THEN unmount(vr[old], st) ELSE st
             /\ vroot' = vr
        ELSE LET r == IF old # 0 THEN patch(vr[old], vr[id], c, 0, st)
                      ELSE mount(vr[id], c, 0, st)
             IN /\ dom' = r.st
                /\ vroot' = [vr EXCEPT ![id] = r.v]
     /\ cvnode' = [cvnode EXCEPT ![c] = id]
     /\ rlast' = [c |-> c, arg |-> id, prior |-> old,
                  argv |-> IF id = 0 THEN VNode("null", None, "", <<>>) ELSE vr[id],
                  oldv |-> IF old = 0 THEN VNode("null", None, "", <<>>) ELSE vr[old],
                  before |-> [n \in ContainerEls |-> Shape(dom, n)],
                  stored |-> cvnode]
     /\ UNCHANGED <<cfg, router, rx, exc, app, inst, store, comp, graph, estack, queue, wat, callStack,
                    created, disposed, gRun, gTop, qobs>>

\* render(h(...), container) with a vnode tree just created.
RenderNew(t, c) ==
  /\ Len(vroot) < MaxTrees
  /\ render(Len(vroot) + 1, Append(vroot, t), c)

\* render(v, container) with a vnode object that was passed to render before.
RenderSame(id, c) == id \in DOMAIN vroot /\ render(id, vroot, c)

\* render(null, container).
RenderNull(c) == render(0, vroot, c)

\* ------------------------------------------------- renderer.ts: components
\* A component instance before mountComponent has filled it.
NoInstance ==
  [isMounted |-> FALSE, subTree |-> VNode("null", None, "", <<>>), container |-> 0,
   mounted |-> <<>>, unmounted |-> <<>>, updated |-> <<>>]

\* The vnode h(Component) of the instance k.
ComponentVNode(k) == [VNode("Component", None, "", <<>>) EXCEPT !.component = k]

\* String(value), as createTextVNode and createTextNode apply it.
Str(v) == IF v.t = "num" THEN ToString(v.n) ELSE "NaN"

\* What a leaf component's function returns for the value it read:
\* createTextVNode(count.value), or h('span', null, count.value).
SubTreeOf(view, acc) ==
  IF view = "text" THEN VNode("Text", None, Str(acc), <<>>)
  ELSE VNode("span", None, "", <<Prim(Str(acc))>>)

\* The unmount callbacks the component functions of SpecComponent register with
\* onUnmounted.
UnmountHooks == <<"h1", "h2">>

\* The instance the next mount of the child component creates.
FreeInstances == {"K1", "K2"} \ created
NextInstance == IF "K1" \notin created THEN "K1" ELSE "K2"

\* unmount of a component that tears its effect down first.
UnmountOrderCleanupFirst == <<"cleanup", "hooks", "subtree">>

\* unmount(vnode) of a component: invokeLifecycleHooks(component.unmounted), then
\* unmount(component.subTree), then cleanup(component.update).
UnmountOrder == <<"hooks", "subtree", "cleanup">>

\* A lifecycle callback that throws.
Throws(h) == h = "boom"

\* invokeLifecycleHooks without try / catch around the callback.
TryCatchNone(S) == S

\* invokeLifecycleHooks: try { hook() } catch (error) { console.error(...) }.
TryCatch(S) ==
  IF S.threw THEN [S EXCEPT !.threw = FALSE, !.dom = Logged(@, "error", None, 0, 0, 0)]
  ELSE S

\* invokeLifecycleHooks(hooks, errorContext): hooks.forEach, from the callback at
\* pos on.  Every call is logged with the callback's place in the list and with what
\* ctx says it finds, and so is the return of invokeLifecycleHooks; an exception
\* that is not caught ends the forEach and leaves invokeLifecycleHooks.
RECURSIVE invokeLifecycleHooks(_, _, _, _)
invokeLifecycleHooks(hooks, pos, ctx, S) ==
  IF S.threw THEN S
  ELSE IF pos > Len(hooks)
  THEN [S EXCEPT !.dom = Logged(@, "done", ctx.k, Len(hooks), 0, 0)]
  ELSE invokeLifecycleHooks(hooks, pos + 1, ctx,
         TryCatch([S EXCEPT !.dom = Logged(@, ctx.ev, ctx.k, pos, ctx.i, ctx.j),
                            !.threw = Throws(hooks[pos])]))

\* A node is in the document: it is reachable from a container element.
RECURSIVE Connected(_, _, _)
Connected(st, el, fuel) ==
  \/ el \in ContainerEls
  \/ /\ fuel > 0
     /\ \E p \in DOMAIN st.kids : el \in Range(st.kids[p]) /\ Connected(st, p, fuel - 1)

\* What an unmount callback of the instance k finds: i = 1 if the instance's effect
\* is in a dependency set, j = 1 if the node of its subtree has a parent.
UnmountCtx(k, S) ==
  [ev |-> "hook", k |-> k,
   i |-> IF \E c \in Containers : k \in Range(S.deps[c]) THEN 1 ELSE 0,
   j |-> IF \E n \in DOMAIN S.dom.kids : inst[k].subTree.el \in Range(S.dom.kids[n])
         THEN 1 ELSE 0]

RECURSIVE unmountTree(_, _)
RECURSIVE unmountKids(_, _, _)
RECURSIVE unmountSteps(_, _, _)

\* unmount(vnode) for any vnode.  S holds what unmount changes: the document, the
\* dependency sets, the effects' edge lists (and the observations of cleanup).
unmountTree(v, S) ==
  IF v.type = "Component" THEN unmountSteps(UnmountOrder, v.component, S)
  ELSE LET S1 == unmountKids(v.kids, 1, S)
       IN IF S1.threw THEN S1
          ELSE [S1 EXCEPT !.dom = RemoveChild(Logged(@, "unmount", v.key, v.el, 0, 0),
                                              v.el)]

unmountKids(kids, i, S) ==
  IF i > Len(kids) \/ S.threw THEN S
  ELSE IF kids[i].type = "#prim" THEN unmountKids(kids, i + 1, S)
  ELSE unmountKids(kids, i + 1, unmountTree(kids[i], S))

unmountSteps(order, k, S) ==
  IF order = <<>> THEN S
  ELSE unmountSteps(Tail(order), k,
    CASE S.threw -> S
      [] Head(order) = "hooks" ->
           invokeLifecycleHooks(inst[k].unmounted, 1, UnmountCtx(k, S), S)
      [] Head(order) = "subtree" ->
           IF inst[k].subTree.type # "null"
           THEN unmountTree(inst[k].subTree,
                            [S EXCEPT !.dom = Logged(@, "subtree", k, 0, 0, 0)])
           ELSE S
      [] OTHER ->
           [S EXCEPT !.deps = CleanupDeps(S.deps, S.edeps, k),
                     !.edeps = CleanupEdges(S.edeps, k),
                     !.stopped = [@ EXCEPT ![k] = TRUE],
                     !.disposed = @ \cup {k},
                     !.dom = Logged(@, "cleanup", k, 0, 0, 0)])

\* What unmount works on, and the state after it.
World == [dom |-> dom, deps |-> deps, edeps |-> edeps, stopped |-> stopped,
          disposed |-> disposed, threw |-> FALSE]

Unmounted(S) ==
  /\ dom' = S.dom
  /\ deps' = S.deps
  /\ edeps' = S.edeps
  /\ stopped' = S.stopped
  /\ disposed' = S.disposed

\* mountComponent(vnode, container): the instance is created and effect(updateFn)
\* runs updateFn at once.
mountComponent(k, container, stk) ==
  /\ inst' = [inst EXCEPT ![k] = [NoInstance EXCEPT !.container = container]]
  /\ created' = created \cup {k}
  /\ StartRun(k, stk, deps, edeps, lastRead)

\* A component function registers callbacks: registerLifecycleHook pushes them on
\* the list of currentInstance, which updateFn has set to the instance.
ExecOn ==
  /\ Running
  /\ Instr.op = "on"
  /\ inst' = [inst EXCEPT ![Cur.e][Instr.c] = @ \o Instr.v]
  /\ callStack' = SetTop(callStack, Advance(Cur))
  /\ UNCHANGED <<cfg, router, rx, exc, app, dom, vroot, cvnode, rlast, store, comp, graph, estack,
                 queue, wat, top, gRun, gTop, qobs>>

\* The callbacks a task invokes.
HooksOf(t) == IF t.t = "onMounted" THEN inst[t.k].mounted ELSE inst[t.k].updated

\* What a mount or update callback of the instance k finds: i = 1 if it is called
\* from a microtask and not from a commit, j = 1 if the node of the instance's
\* subtree is in the document, or was until the instance was unmounted.
CommitCtx(t, st, fromTask) ==
  [ev |-> t.t, k |-> t.k, i |-> IF fromTask THEN 1 ELSE 0,
   j |-> IF t.k \in disposed \/ Connected(st, inst[t.k].subTree.el, MaxDepth)
         THEN 1 ELSE 0]

\* The document after invokeLifecycleHooks for the task.
Invoked(t, st, fromTask) ==
  invokeLifecycleHooks(HooksOf(t), 1, CommitCtx(t, st, fromTask),
                       [World EXCEPT !.dom = st]).dom

\* updateFn hands the callbacks to queueMicrotask.
Defer(t) == TRUE

\* The end of a commit of the instance k, st being the document it made: the
\* mount callbacks (first commit) or the update callbacks are left to a microtask.
Committed(k, st) ==
  LET t == Task(IF inst[k].isMounted THEN "onUpdated" ELSE "onMounted", k) IN
  IF Defer(t)
  THEN /\ dom' = st
       /\ microtasks' = Append(microtasks, t)
  ELSE /\ dom' = Invoked(t, st, FALSE)
       /\ microtasks' = microtasks

\* updateFn of a leaf component, after component(props) returned its subtree: the
\* first run mounts it, a later run patches the previous subtree with it; the mount
\* or update callbacks are left to a microtask.
ExecCommitLeaf ==
  /\ Running
  /\ Instr.op = "commit" /\ Instr.c \in {"text", "span"}
  /\ LET k == Cur.e
         sub == SubTreeOf(Instr.c, Cur.acc)
         r == IF inst[k].isMounted
              THEN patch(inst[k].subTree, sub, inst[k].container, 0, dom)
              ELSE mount(sub, inst[k].container, 0, dom)
     IN /\ Committed(k, r.st)
        /\ inst' = [inst EXCEPT ![k].subTree = r.v, ![k].isMounted = TRUE]
  /\ callStack' = SetTop(callStack, Advance(Cur))
  /\ UNCHANGED <<cfg, router, rx, exc, app, vroot, cvnode, rlast, store, comp, graph, estack, pendingJobs,
                 isFlushing, wat, top, gRun, gTop, qobs>>

\* The parent component returns h('div', null, h(Child)) while count.value is 0 and
\* h('div', null) otherwise (view "parent"); or always h('div', null, h(Child)) (view
\* "fixed"); or always h('div', null, h(Child, {n: count.value})) (view "family").
ParentViews == {"parent", "fixed", "family"}
WantsChild == Instr.c # "parent" \/ Falsy(Cur.acc)
HasChild(k) == inst[k].subTree.type # "null" /\ inst[k].subTree.kids # <<>>
ParentDiv(el, kids) == [VNode("div", None, "", kids) EXCEPT !.el = el]

\* The vnode of the child the parent's component function returns: txt holds the
\* prop n, "" for none.
ChildVNode(k) ==
  [ComponentVNode(k) EXCEPT !.txt = IF Instr.c = "family" THEN Str(Cur.acc) ELSE ""]

\* patchComponent: hasChanged, a prop of the new vnode differs from the old one's.
PropsChanged(old, new) == old.txt # new.txt

\* updateFn of the parent when no child is to be mounted: the first run mounts the
\* div; a later run patches div against div, and patchChildren either patches the
\* child component against itself (patchComponent: no prop changed, no update), or
\* unmounts it as a leftover, or finds nothing to do.
ExecCommitParent ==
  /\ Running
  /\ Instr.op = "commit" /\ Instr.c \in ParentViews /\ Cur.aux = <<>>
  /\ LET k == Cur.e
         old == inst[k].subTree
         S == IF ~inst[k].isMounted
              THEN [World EXCEPT !.dom =
                      Logged(InsertBefore(CreateNode(dom, "div", ""), inst[k].container,
                                          dom.next, 0),
                             "mount", None, dom.next, 0, 0)]
              ELSE IF HasChild(k) /\ ~WantsChild
              THEN unmountTree(old.kids[1], World)
              ELSE World
     IN /\ inst[k].isMounted \/ ~WantsChild
        /\ inst[k].isMounted => (HasChild(k) \/ ~WantsChild)
        /\ (inst[k].isMounted /\ HasChild(k) /\ WantsChild) =>
              ~PropsChanged(old.kids[1], ChildVNode(old.kids[1].component))
        /\ inst' = IF ~inst[k].isMounted
                   THEN [inst EXCEPT ![k].subTree = ParentDiv(dom.next, <<>>),
                                     ![k].isMounted = TRUE]
                   ELSE IF HasChild(k) /\ ~WantsChild
                   THEN [inst EXCEPT ![k].subTree = ParentDiv(old.el, <<>>)]
                   ELSE inst
        /\ deps' = S.deps /\ edeps' = S.edeps
        /\ stopped' = S.stopped /\ disposed' = S.disposed
        /\ Committed(k, S.dom)
  /\ callStack' = SetTop(callStack, Advance(Cur))
  /\ UNCHANGED <<cfg, router, rx, exc, app, vroot, cvnode, rlast, store, comp, estack, pendingJobs,
                 isFlushing, wat, created, ops, lastRead, everRead, runsEpoch, gTop, qobs>>

\* updateFn of the parent when the child is to be mounted: in the first run the div
\* is created and its child mounted into it before the div is inserted; in a later
\* run patchChildren mounts the new child into the div.  mountComponent runs the
\* child's updateFn, and the parent's commit goes on when that has returned.
ExecCommitMountChild ==
  /\ Running
  /\ Instr.op = "commit" /\ Instr.c \in ParentViews /\ Cur.aux = <<>>
  /\ WantsChild
  /\ ~inst[Cur.e].isMounted \/ ~HasChild(Cur.e)
  /\ FreeInstances # {}
  /\ LET k == Cur.e
         el == IF inst[k].isMounted THEN inst[k].subTree.el ELSE dom.next
     IN /\ dom' = IF inst[k].isMounted THEN dom ELSE CreateNode(dom, "div", "")
        /\ inst' = [inst EXCEPT ![NextInstance] = [NoInstance EXCEPT !.container = el]]
        /\ created' = created \cup {NextInstance}
        /\ StartRun(NextInstance, SetTop(callStack, [Cur EXCEPT !.aux = <<NextInstance>>]),
                    deps, edeps, lastRead)
  /\ UNCHANGED <<cfg, router, rx, exc, app, vroot, cvnode, rlast, store, comp, queue, wat, ops, disposed, gTop,
                 qobs>>

\* updateFn of the parent, a later run that returns the child with a changed prop:
\* patchChildren patches the child's vnode, and patchComponent assigns the new props
\* and calls instance.update(); the parent's commit goes on when that has returned.
ExecCommitPatchChild ==
  /\ Running
  /\ Instr.op = "commit" /\ Instr.c \in ParentViews /\ Cur.aux = <<>>
  /\ inst[Cur.e].isMounted /\ HasChild(Cur.e) /\ WantsChild
  /\ LET child == inst[Cur.e].subTree.kids[1] IN
     /\ PropsChanged(child, ChildVNode(child.component))
     /\ StartRun(child.component, SetTop(callStack, [Cur EXCEPT !.aux = <<child.component>>]),
                 deps, edeps, lastRead)
  /\ UNCHANGED <<cfg, router, rx, exc, app, ui, store, comp, queue, wat, top, gTop, qobs>>

\* The child's run has returned to the parent's commit: the div is inserted (first
\* run), instance.subTree and isMounted are set.
ExecCommitChildDone ==
  /\ Running
  /\ Instr.op = "commit" /\ Instr.c \in ParentViews /\ Cur.aux # <<>>
  /\ LET k == Cur.e
         el == inst[Cur.aux[1]].container
     IN /\ Committed(k, IF inst[k].isMounted THEN dom
                         ELSE Logged(InsertBefore(dom, inst[k].container, el, 0),
                                     "mount", None, el, 0, 0))
        /\ inst' = [inst EXCEPT
              ![k].subTree = ParentDiv(el, <<ChildVNode(Cur.aux[1])>>),
              ![k].isMounted = TRUE]
  /\ callStack' = SetTop(callStack, [Advance(Cur) EXCEPT !.aux = <<>>])
  /\ UNCHANGED <<cfg, router, rx, exc, app, vroot, cvnode, rlast, store, comp, graph, estack, pendingJobs,
                 isFlushing, wat, top, gRun, gTop, qobs>>

\* render(h(Component), container) into the empty first container: mount.
RenderComponent(k) ==
  /\ TopOp
  /\ cvnode[1] = 0 /\ created \cap Components = {}
  /\ vroot' = Append(vroot, ComponentVNode(k))
  /\ cvnode' = [cvnode EXCEPT ![1] = Len(vroot) + 1]
  /\ mountComponent(k, 1, <<>>)
  /\ lastSet' = NoLastSet
  /\ UNCHANGED <<cfg, router, rx, exc, app, dom, rlast, store, comp, queue, wat, disposed, reads, warm, muts,
                 qobs>>

\* render(null, container) over a mounted root component: unmount.
UnmountRoot ==
  /\ TopOp
  /\ cvnode[1] # 0 /\ vroot[cvnode[1]].type = "Component"
  /\ Unmounted(unmountTree(vroot[cvnode[1]], World))
  /\ cvnode' = [cvnode EXCEPT ![1] = 0]
  /\ lastSet' = NoLastSet
  /\ UNCHANGED <<cfg, router, rx, exc, app, vroot, rlast, inst, store, comp, estack, queue, wat, callStack,
                 created, lastRead, everRead, runsEpoch, reads, warm, muts, qobs>>

\* The host runs a microtask left by a commit: invokeLifecycleHooks(instance.mounted)
\* or invokeLifecycleHooks(instance.updated).
RunHooksMicrotask ==
  /\ Quiescent
  /\ microtasks # <<>> /\ Head(microtasks).t \in {"onMounted", "onUpdated"}
  /\ microtasks' = Tail(microtasks)
  /\ dom' = Invoked(Head(microtasks), dom, TRUE)
  /\ UNCHANGED <<cfg, router, rx, exc, app, vroot, cvnode, rlast, inst, store, comp, graph, estack,
                 pendingJobs, isFlushing, wat, callStack, top, gRun, gTop, qobs>>

\* ------------------------------------------------- renderer.ts: createApp
\* createApp(rootComponent): isMounted = false, rootVNode = null, container = null.
\* rootVNode is an index into vroot and container an element, 0 for null.  The
\* observations: first is the container of the latest mount that rendered, threw
\* tells that the latest mount call threw although the app was mounted, last is the
\* latest call on the app ("mount" for one that rendered, "remount" for one made
\* while mounted, "unmount" for one made while mounted).
NoApp == [isMounted |-> FALSE, rootVNode |-> 0, container |-> 0,
          first |-> 0, threw |-> FALSE, last |-> "none"]

\* app.mount(selector) when the target is not found: container is assigned null and
\* the call throws.
AppMountMissing ==
  /\ TopOp
  /\ app' = [app EXCEPT !.container = 0, !.threw = app.isMounted,
                        !.last = IF app.isMounted THEN "remount" ELSE @]
  /\ lastSet' = NoLastSet
  /\ UNCHANGED <<cfg, router, rx, exc, ui, store, comp, graph, estack, queue, wat, callStack, created,
                 disposed, gRun, reads, warm, muts, qobs>>

\* app.mount(selector) while the app is mounted: container is assigned the target,
\* nothing is rendered.
AppMountAgain(c) ==
  /\ TopOp
  /\ app.isMounted
  /\ app' = [app EXCEPT !.container = c, !.threw = FALSE, !.last = "remount"]
  /\ lastSet' = NoLastSet
  /\ UNCHANGED <<cfg, router, rx, exc, ui, store, comp, graph, estack, queue, wat, callStack, created,
                 disposed, gRun, reads, warm, muts, qobs>>

\* app.mount(selector) while the app is not mounted and the target is empty:
\* render(rootVNode, container) mounts the root component, isMounted = true.
AppMountFresh(c) ==
  /\ TopOp
  /\ ~app.isMounted /\ cvnode[c] = 0
  /\ FreeInstances # {}
  /\ vroot' = Append(vroot, ComponentVNode(NextInstance))
  /\ cvnode' = [cvnode EXCEPT ![c] = Len(vroot) + 1]
  /\ mountComponent(NextInstance, c, <<>>)
  /\ app' = [app EXCEPT !.isMounted = TRUE, !.rootVNode = Len(vroot) + 1,
                        !.container = c, !.first = c, !.threw = FALSE, !.last = "mount"]
  /\ lastSet' = NoLastSet
  /\ UNCHANGED <<cfg, router, rx, exc, dom, rlast, store, comp, queue, wat, disposed, reads, warm, muts,
                 qobs>>

\* app.mount(selector) while the app is not mounted and the target still holds a
\* root vnode of the same component: render patches, patchComponent hands the old
\* instance to the new vnode and finds no prop changed.
AppMountOver(c) ==
  /\ TopOp
  /\ ~app.isMounted /\ cvnode[c] # 0
  /\ vroot' = Append(vroot, ComponentVNode(vroot[cvnode[c]].component))
  /\ cvnode' = [cvnode EXCEPT ![c] = Len(vroot) + 1]
  /\ app' = [app EXCEPT !.isMounted = TRUE, !.rootVNode = Len(vroot) + 1,
                        !.container = c, !.first = c, !.threw = FALSE, !.last = "mount"]
  /\ lastSet' = NoLastSet
  /\ UNCHANGED <<cfg, router, rx, exc, dom, rlast, inst, store, comp, graph, estack, queue, wat, callStack,
                 created, disposed, gRun, reads, warm, muts, qobs>>

\* app.unmount() when isMounted && container: render(null, container) unmounts what
\* container._vnode holds, if anything; isMounted = false, rootVNode = null.
AppUnmount ==
  /\ TopOp
  /\ app.isMounted /\ app.container # 0
  /\ IF cvnode[app.container] # 0
     THEN Unmounted(unmountTree(vroot[cvnode[app.container]], World))
     ELSE UNCHANGED <<dom, graph, stopped, disposed>>
  /\ cvnode' = [cvnode EXCEPT ![app.container] = 0]
  /\ app' = [app EXCEPT !.isMounted = FALSE, !.rootVNode = 0, !.last = "unmount"]
  /\ lastSet' = NoLastSet
  /\ UNCHANGED <<cfg, router, rx, exc, vroot, rlast, inst, store, comp, estack, queue, wat, callStack,
                 created, lastRead, everRead, runsEpoch, reads, warm, muts, qobs>>

\* app.unmount() otherwise: nothing happens.
AppUnmountSkipped ==
  /\ TopOp
  /\ ~(app.isMounted /\ app.container # 0)
  /\ app' = [app EXCEPT !.last = IF app.isMounted THEN "unmount" ELSE @]
  /\ lastSet' = NoLastSet
  /\ UNCHANGED <<cfg, router, rx, exc, ui, store, comp, graph, estack, queue, wat, callStack, created,
                 disposed, gRun, reads, warm, muts, qobs>>

\* -------------------------------------------------------------- exceptions
\* exc.on: an exception is in flight, the call stack is being unwound and no call
\* takes a step of its own.  The
\* observations: thrown, the exceptions thrown so far; escaped, those that left
\* the outermost call (to top-level code, or to the host from a microtask);
\* caught, those a catch block took.

\* A body throws.
ExecThrow ==
  /\ Running
  /\ Instr.op = "throwif" /\ Cur.acc = Instr.v
  /\ exc' = [exc EXCEPT !.on = TRUE, !.thrown = @ + 1]
  /\ UNCHANGED <<cfg, router, rx, app, ui, store, comp, graph, estack, queue, wat, callStack, top,
                 gRun, gTop, qobs>>

\* The condition of the throw is false.
ExecNoThrow ==
  /\ Running
  /\ Instr.op = "throwif" /\ Cur.acc # Instr.v
  /\ callStack' = SetTop(callStack, Advance(Cur))
  /\ UNCHANGED <<cfg, router, rx, exc, app, ui, store, comp, graph, estack, queue, wat, top, gRun,
                 gTop, qobs>>

\* effectFn without try / finally.
HandlesNothing(f) == "none"

\* effectFn with a catch block in place of finally.
HandlesSwallow(f) == IF f.k = "run" THEN "catch" ELSE "none"

\* What the code of a frame does with an exception that passes through it:
\* effectFn has try { return fn() } finally { popEffect() }; trigger, get value(),
\* watch's job and flushJobs have no handler.
Handles(f) == IF f.k = "run" THEN "finally" ELSE "none"

\* The exception arrives in the caller, stk being the stack without the frame it
\* left: a body waiting in try { c.value } catch {} takes it and goes on; with no
\* caller left it has escaped.
Landing(stk) ==
  IF stk = <<>>
  THEN /\ callStack' = stk
       /\ exc' = [exc EXCEPT !.on = FALSE, !.escaped = @ + 1]
  ELSE LET f == stk[Len(stk)] IN
       IF f.k = "run" /\ prog[f.e][f.pc].op = "tryread"
       THEN /\ callStack' = SetTop(stk, Advance(f))
            /\ exc' = [exc EXCEPT !.on = FALSE, !.caught = @ + 1]
       ELSE /\ callStack' = stk
            /\ exc' = exc

\* container._vnode after an exception has left render(): the assignment that ends
\* render is not reached, so a container whose root component did not get mounted
\* has no _vnode.
RenderLeft(stk) ==
  [c \in ContainerEls |->
     IF /\ stk = <<>> /\ cvnode[c] # 0
        /\ vroot[cvnode[c]].type = "Component"
        /\ ~inst[vroot[cvnode[c]].component].isMounted
     THEN 0 ELSE cvnode[c]]

\* The exception meets the handler of the innermost frame: a finally block runs and
\* the exception leaves the frame; a catch block ends it and the frame returns.
Unwind ==
  /\ exc.on /\ callStack # <<>>
  /\ CASE Handles(Cur) = "finally" -> PopEffect /\ Landing(Pop(callStack))
       [] Handles(Cur) = "catch" ->
            /\ exc' = [exc EXCEPT !.on = FALSE, !.caught = @ + 1]
            /\ callStack' = SetTop(callStack, [Cur EXCEPT !.pc = Len(prog[Cur.e]) + 1])
            /\ UNCHANGED estack
       [] OTHER -> Landing(Pop(callStack)) /\ UNCHANGED estack
  /\ cvnode' = RenderLeft(callStack')
  /\ UNCHANGED <<cfg, router, rx, app, dom, vroot, rlast, inst, store, comp, graph, queue, wat, top,
                 gRun, gTop, qobs>>

\* ----------------------------------------------------------- reactive.ts
\* A proxy made by reactive(), by its position in rx.target; a missing property.
Px(j) == [t |-> "px", n |-> j]
Absent == [t |-> "absent", n |-> 0]

\* rx.props: the own properties of the raw objects, both {x: 0} at first.  rx.target: the target of
\* every proxy made, in creation order (rawMap).  rx.marked: the objects markRaw
\* defined '__b_isReactive' = false on.  Observations: calls, the (argument,
\* result) pairs of the reactive() calls of top-level code, in order; gets, the (stored,
\* returned) pairs of the property reads that found an object; lastWrite, what the
\* latest property write was and whether it called trigger on a non-empty
\* dependency set; seen, the keys each effect's latest run enumerated.
NoSeen == [on |-> FALSE, keys |-> {}]
NoWrite == [on |-> FALSE, proxy |-> FALSE, same |-> FALSE, ran |-> FALSE]
NoRx ==
  [props |-> [i \in ObjIds |-> [k \in PKeys |-> IF k = "x" THEN Num(0) ELSE Absent]],
   target |-> <<>>, marked |-> {},
   calls |-> <<>>, gets |-> {}, lastWrite |-> NoWrite,
   seen |-> [e \in PlainEffects |-> NoSeen]]

\* reactiveMap.get that never finds a proxy.
ReactiveMapMiss(M, t) == 0

\* reactiveMap.get(target): the proxy stored for the target (the latest set wins),
\* 0 if reactiveMap.has(target) is false.
ReactiveMapGet(M, t) ==
  IF \E j \in DOMAIN M.target : M.target[j] = t
  THEN CHOOSE j \in DOMAIN M.target :
         M.target[j] = t /\ \A m \in DOMAIN M.target : M.target[m] = t => m <= j
  ELSE 0

\* value['__b_isReactive']: the get trap of a proxy answers true; a marked object
\* has the own property false; other values have none (undefined).
IsReactiveFlag(M, v) == v.t = "px"

\* isReactive(value): !!(value && value['__b_isReactive']).
isReactive(M, v) == IsReactiveFlag(M, v)

\* reactive(target): the proxy of reactiveMap if there is one; the target itself
\* if its '__b_isReactive' is truthy; else a new proxy, stored in both maps.
\* Gives the maps after the call and the value returned.
reactive(M, t) ==
  IF ReactiveMapGet(M, t) # 0 THEN [M |-> M, v |-> Px(ReactiveMapGet(M, t))]
  ELSE IF IsReactiveFlag(M, t) THEN [M |-> M, v |-> t]
  ELSE [M |-> [M EXCEPT !.target = Append(@, t)], v |-> Px(Len(M.target) + 1)]

\* The set trap storing the value as it was given.
UnwrapNever(M, v) == v

\* The set trap's value?.['__b_raw'] || value: the get trap of a proxy answers RAW
\* with its target.
Unwrap(M, v) == IF v.t = "px" THEN M.target[v.n] ELSE v

\* Reflect.get(target, key): undefined for a missing property.
ReflectGet(M, i, k) == IF M.props[i][k] = Absent THEN Undef ELSE M.props[i][k]

\* Reflect.ownKeys(target).
OwnKeys(M, i) == {k \in PKeys : M.props[i][k] # Absent}

\* typeof v === 'object' && v !== null.
IsObject(v) == v.t \in {"obj", "px"}

\* The object behind the proxy j (the target the traps close over).
TargetOf(j) == rx.target[j].n

\* The get trap, after track(target, key): the result, given back through
\* reactive() if it is an object.
GetTrap(M, i, k) ==
  LET result == ReflectGet(M, i, k) IN
  IF IsObject(result)
  THEN LET r == reactive(M, result) IN
       [M |-> [r.M EXCEPT !.gets = @ \cup {[stored |-> result, res |-> r.v]}], v |-> r.v]
  ELSE [M |-> M, v |-> result]

\* The value the ownKeys trap tracks: Symbol('iterate') is a new symbol at every
\* call, one that no dependency set is stored under yet.
FreshSymbol == CHOOSE s \in Symbols : deps[s] = <<>>

\* const p = reactive(v) in top-level code.
TopReactive(v) ==
  /\ TopOp
  /\ LET r == reactive(rx, v) IN
     rx' = [r.M EXCEPT !.calls = Append(@, [arg |-> v, res |-> r.v])]
  /\ lastSet' = NoLastSet
  /\ UNCHANGED <<cfg, router, exc, app, ui, store, comp, graph, estack, queue, wat, callStack,
                 created, disposed, gRun, reads, warm, muts, qobs>>

\* markRaw(o) for an object that reactive() has not seen yet.
TopMarkRaw(i) ==
  /\ TopOp
  /\ ReactiveMapGet(rx, Obj(i)) = 0 /\ i \notin rx.marked
  /\ rx' = [rx EXCEPT !.marked = @ \cup {i}]
  /\ lastSet' = NoLastSet
  /\ UNCHANGED <<cfg, router, exc, app, ui, store, comp, graph, estack, queue, wat, callStack,
                 created, disposed, gRun, reads, warm, muts, qobs>>

\* p[k] read in top-level code through the proxy j: track finds no active effect.
TopGetProp(j, k) ==
  /\ TopOp
  /\ j \in DOMAIN rx.target
  /\ rx' = GetTrap(rx, TargetOf(j), k).M
  /\ lastSet' = NoLastSet
  /\ UNCHANGED <<cfg, router, exc, app, ui, store, comp, graph, estack, queue, wat, callStack,
                 created, disposed, gRun, reads, warm, muts, qobs>>

\* The set trap for the object i: oldValue, newValue, Reflect.set, then
\* trigger(target, key) if !Object.is(oldValue, newValue); trigger is a new frame.
SetTrap(i, k, value, stk) ==
  LET oldV == ReflectGet(rx, i, k)
      newV == Unwrap(rx, value)
      c == PropId(i, k)
  IN /\ rx' = [rx EXCEPT
           !.props[i][k] = newV,
           !.lastWrite = [on |-> TRUE, proxy |-> value.t = "px",
                          same |-> (value.t = "px" /\ rx.target[value.n] = rx.props[i][k]),
                          ran |-> (~ObjectIs(oldV, newV)
                                     /\ EffectsToRun(deps, c, activeEffect) # <<>>)]]
     /\ IF ObjectIs(oldV, newV)
        THEN callStack' = stk
        ELSE callStack' = Append(stk, TrigFrame(c, deps, activeEffect, lastRead, stopped,
                                                None))

\* p[k] = v in top-level code through the proxy j.
TopSetProp(j, k, v) ==
  /\ TopOp
  /\ j \in DOMAIN rx.target
  /\ v.t = "px" => v.n \in DOMAIN rx.target
  /\ SetTrap(TargetOf(j), k, v, <<>>)
  /\ lastSet' = NoLastSet
  /\ UNCHANGED <<cfg, router, exc, app, ui, store, comp, graph, estack, queue, wat, created, disposed,
                 gRun, reads, warm, muts, qobs>>

\* delete p[k] in top-level code: Reflect.has, Reflect.deleteProperty, then
\* trigger(target, key) if the key was there.
TopDeleteProp(j, k) ==
  /\ TopOp
  /\ j \in DOMAIN rx.target
  /\ LET i == TargetOf(j)
         hadKey == rx.props[i][k] # Absent
     IN /\ rx' = [rx EXCEPT !.props[i][k] = Absent, !.lastWrite = NoWrite]
        /\ IF hadKey
           THEN callStack' = <<TrigFrame(PropId(i, k), deps, activeEffect, lastRead,
                                         stopped, None)>>
           ELSE callStack' = callStack
  /\ lastSet' = NoLastSet
  /\ UNCHANGED <<cfg, router, exc, app, ui, store, comp, graph, estack, queue, wat, created, disposed,
                 gRun, reads, warm, muts, qobs>>

\* A body reads p[k]: the get trap tracks (target, key) and returns the result.
ExecGetProp ==
  /\ Running
  /\ Instr.op = "getp"
  /\ LET i == Instr.v.n
         c == PropId(i, Instr.c)
         r == GetTrap(rx, i, Instr.c)
     IN /\ deps' = TrackDeps(deps, activeEffect, c)
        /\ edeps' = TrackEdges(edeps, deps, activeEffect, c)
        /\ rx' = r.M
        /\ callStack' = SetTop(callStack, [Advance(Cur) EXCEPT !.acc = r.v])
        /\ lastRead' = [lastRead EXCEPT ![Cur.e] = @ \cup {c}]
        /\ everRead' = [everRead EXCEPT ![Cur.e] = @ \cup {c}]
  /\ UNCHANGED <<cfg, router, exc, app, ui, store, comp, estack, queue, wat, top, stopped, runsEpoch,
                 gTop, qobs>>

\* A body calls Object.keys(p): the ownKeys trap tracks (target, Symbol('iterate'))
\* and returns Reflect.ownKeys(target).
ExecKeys ==
  /\ Running
  /\ Instr.op = "keys"
  /\ \E s \in Symbols : deps[s] = <<>>
  /\ deps' = TrackDeps(deps, activeEffect, FreshSymbol)
  /\ edeps' = TrackEdges(edeps, deps, activeEffect, FreshSymbol)
  /\ rx' = [rx EXCEPT !.seen[Cur.e] = [on |-> TRUE, keys |-> OwnKeys(rx, Instr.v.n)]]
  /\ callStack' = SetTop(callStack, Advance(Cur))
  /\ lastRead' = [lastRead EXCEPT ![Cur.e] = @ \cup {FreshSymbol}]
  /\ everRead' = [everRead EXCEPT ![Cur.e] = @ \cup {FreshSymbol}]
  /\ UNCHANGED <<cfg, router, exc, app, ui, store, comp, estack, queue, wat, top, stopped, runsEpoch,
                 gTop, qobs>>

\* ------------------------------------------------------------ construction
Ids == Containers \cup Effects
NoRender ==
  [c |-> 0, arg |-> 0, prior |-> 0, argv |-> VNode("null", None, "", <<>>),
   oldv |-> VNode("null", None, "", <<>>),
   before |-> [n \in ContainerEls |-> Shape(EmptyDom, n)],
   stored |-> [c \in ContainerEls |-> 0]]
NoQobs == [calls |-> [j \in Jobs |-> 0], batch |-> [j \in Jobs |-> 0],
           execThis |-> [j \in Jobs |-> 0], owed |-> {}, during |-> {}, lateRun |-> {}]

\* The state after the refs (ref(v0[r])) and the lazy effects (computed(), the
\* batched jobs) are constructed: nothing has run, nothing is tracked.
Constructed(k, p, vs, v0) ==
  /\ kind = k /\ prog = p /\ vals = vs
  /\ raw = [r \in Refs |-> ToRaw(v0[r])]
  /\ val = [r \in Refs |-> ToReactive(v0[r])]
  /\ dirty = [x \in Computeds |-> TRUE]
  /\ cval = [x \in Computeds |-> Undef]
  /\ deps = [c \in Containers |-> <<>>]
  /\ edeps = [e \in Effects |-> {}]
  /\ activeEffect = None /\ effectStack = <<>>
  /\ pendingJobs = <<>> /\ isFlushing = FALSE /\ microtasks = <<>>
  /\ oldValue = [w \in Watchers |-> Undef]
  /\ callStack = <<>> /\ created = {} /\ ops = 0 /\ disposed = {}
  /\ lastRead = [e \in Effects |-> {}]
  /\ everRead = [e \in Effects |-> {}]
  /\ stopped = [e \in Effects |-> FALSE]
  /\ runsEpoch = ZeroRuns
  /\ reads = [x \in Computeds |-> 0]
  /\ warm = {}
  /\ muts = [r \in Refs |-> 0]
  /\ lastSet = NoLastSet
  /\ cbLog = <<>> /\ setupVal = Undef
  /\ qobs = NoQobs
  /\ dom = EmptyDom /\ vroot = <<>> /\ cvnode = [c \in ContainerEls |-> 0]
  /\ app = NoApp
  /\ rx = NoRx
  /\ exc = NoExc
  /\ router = createRouter
  /\ rlast = NoRender
  /\ inst = [i \in Components |-> NoInstance]

KindOf(refs, computeds, plain, batched, watch) ==
  [i \in Ids |-> IF i \in refs THEN "ref"
                 ELSE IF i \in computeds THEN "computed"
                 ELSE IF i \in plain THEN "plain"
                 ELSE IF i \in batched THEN "batched"
                 ELSE IF i \in watch THEN "watch"
                 ELSE "none"]

\* ------------------------------------------- Spec: effects over refs a, b, X
\* Bodies of the effects e1, e2: read a; if (a.value) b.value; b.value = a.value;
\* a.value = (a.value + 1) % K; read the computed X; read b then reset a.
EffectBodies ==
  { <<R("a")>>,
    <<R("a"), BRZ(1), R("b")>>,
    <<R("a"), WACC("b")>>,
    <<INC("a")>>,
    <<R("X")>>,
    <<R("b"), W("a", Num(0))>> }

\* Getters of the computed X: a.value; a.value ? b.value : a.value.
GetterBodies == { <<R("a")>>, <<R("a"), BRZ(1), R("b")>> }

Init ==
  \E p1 \in EffectBodies, p2 \in EffectBodies, px \in GetterBodies :
    Constructed(KindOf(Refs, {"X"}, PlainEffects, {}, {}),
                [i \in Effects |-> IF i = "e1" THEN p1 ELSE IF i = "e2" THEN p2
                                   ELSE IF i = "X" THEN px ELSE <<>>],
                Nums, [r \in Refs |-> Num(0)])

Next ==
  \/ \E e \in PlainEffects : CreateEffect(e)
  \/ \E r \in Refs, v \in vals : TopWrite(r, v)
  \/ \E x \in Computeds : TopReadClean(x)
  \/ \E x \in Computeds : TopReadDirty(x)
  \/ \E e \in PlainEffects : Stop(e)
  \/ ExecReadRef \/ ExecReadClean \/ ExecReadDirty \/ ExecWrite \/ ExecInc \/ ExecBranch
  \/ TriggerInline \/ TriggerDirtyFlag \/ TriggerDone
  \/ ReturnPlain \/ ReturnComputed

Spec == Init /\ [][Next]_vars

\* A trigger call made by a write to a ref (not by a computed's invalidation).
RefTriggers == {i \in DOMAIN callStack : callStack[i].k = "trig" /\ callStack[i].e \in Refs}

C2_SoundNegative ==
  \A i \in RefTriggers : callStack[i].sel \subseteq callStack[i].readers

\* A write to C while some effect read C in an earlier run but not in its latest,
\* and is still subscribed elsewhere.
C2_Witness ==
  \E i \in RefTriggers : \E e \in PlainEffects :
    /\ callStack[i].e \in everRead[e] \ lastRead[e]
    /\ lastRead[e] # {}
    /\ ~stopped[e]
    /\ e \notin callStack[i].sel
    /\ runsEpoch[e] = 0

\* C3. Self-trigger suppression: the trigger of a write made by a running effect
\* never selects that effect, also when the effect has read the container it writes.
C3_SelfSuppressed ==
  \A i \in RefTriggers : callStack[i].writer \notin callStack[i].sel

\* An effect writes a container that its own current run has read.
C3_Witness ==
  \E i \in RefTriggers :
    /\ callStack[i].writer # None
    /\ callStack[i].writer \in callStack[i].readers

\* ------------------------- SpecComputed: computed refs read by top-level code
\* a = ref(0); X = computed(() => a.value); the diamond B = computed(() => a.value),
\* C = computed(() => a.value), D = computed(() => B.value + C.value).
ComputedBodies ==
  [i \in Effects |-> IF i \in {"X", "B", "C"} THEN <<R("a")>>
                     ELSE IF i = "D" THEN <<R("B"), RADD("C")>>
                     ELSE <<>>]

InitComputed ==
  Constructed(KindOf({"a"}, Computeds, {}, {}, {}), ComputedBodies, Nums,
              [r \in Refs |-> Num(0)])

NextComputed ==
  \/ \E v \in vals : TopWrite("a", v)
  \/ \E x \in Computeds : TopReadClean(x)
  \/ \E x \in Computeds : TopReadDirty(x)
  \/ ExecReadRef \/ ExecReadClean \/ ExecReadDirty
  \/ TriggerDirtyFlag \/ TriggerDone
  \/ ReturnComputed

SpecComputed == InitComputed /\ [][NextComputed]_vars

\* C29. Computed invalidation is coalesced: when an upstream trigger reaches the
\* scheduler of a computed that is already dirty, nothing happens (no trigger call,
\* no run, the flag stays); a trigger call for the computed's own dependents is
\* only made on its clean-to-dirty transition, and the flag only becomes clean
\* when its getter has been recomputed.
C29_InvalidationCoalesced ==
  [][\A x \in Computeds :
       /\ (Triggering /\ Selected = x /\ dirty[x]) =>
             /\ callStack' = SetTop(callStack, Served(Cur))
             /\ runsEpoch' = runsEpoch /\ dirty' = dirty /\ cval' = cval
       /\ (/\ Len(callStack') = Len(callStack) + 1
           /\ callStack'[Len(callStack')].k = "trig"
           /\ callStack'[Len(callStack')].e = x) => (~dirty[x] /\ dirty'[x])
       /\ (dirty[x] /\ ~dirty'[x]) => (Returning /\ Cur.e = x)]_vars

\* An upstream trigger reaches B, which is already dirty and has the dependent D.
C29_Witness ==
  /\ Triggering /\ Selected = "B" /\ dirty["B"]
  /\ "D" \in Range(deps["B"])

\* C4. Computed caching and laziness: between two mutations of a, the getter of X
\* has run exactly once if X.value was read (however often) and not at all
\* otherwise; in particular it does not run while the mutation itself is executing.
C4_ComputedCaching ==
  /\ Quiescent => runsEpoch["X"] = (IF reads["X"] > 0 THEN 1 ELSE 0)
  /\ (callStack # <<>> /\ callStack[1].k = "trig") => runsEpoch["X"] = 0

\* X was read, a was mutated, and X has been read twice since.
C4_Witness ==
  /\ Quiescent
  /\ "X" \in warm /\ muts["a"] >= 1
  /\ reads["X"] >= 2 /\ runsEpoch["X"] = 1

\* C5. Diamond collapsing: once a has been mutated and D.value has been read again,
\* the getters of D, B and C have each run exactly once since the mutation.
C5_DiamondOnce ==
  (Quiescent /\ muts["a"] >= 1 /\ reads["D"] >= 1) =>
     \A x \in {"D", "B", "C"} : runsEpoch[x] = 1

\* D was read, then a was mutated once, then D was read once.
C5_Witness ==
  /\ Quiescent
  /\ "D" \in warm /\ muts["a"] = 1
  /\ reads["D"] = 1
  /\ \A x \in {"D", "B", "C"} : runsEpoch[x] = 1
  /\ cval["D"] = Plus(val["a"], val["a"])

\* ------------------------------ SpecRef: a ref holding primitives and objects
\* a = ref(v0) for any value v0; effect(() => a.value); X = computed(() => a.value);
\* top-level code assigns numbers, NaN, objects and proxies of objects.
RefValues == Nums \cup {NaN} \cup {Obj(i) : i \in 1..MaxObj} \cup {Proxy(i) : i \in 1..MaxObj}

InitRef ==
  \E v0 \in RefValues :
    Constructed(KindOf({"a"}, {"X"}, {"e1"}, {}, {}),
                [i \in Effects |-> IF i \in {"e1", "X"} THEN <<R("a")>> ELSE <<>>],
                RefValues, [r \in Refs |-> v0])

NextRef ==
  \/ CreateEffect("e1")
  \/ \E v \in vals : TopWrite("a", v)
  \/ TopReadClean("X")
  \/ TopReadDirty("X")
  \/ ExecReadRef
  \/ TriggerInline \/ TriggerDirtyFlag \/ TriggerDone
  \/ ReturnPlain \/ ReturnComputed

SpecRef == InitRef /\ [][NextRef]_vars

\* C6. Ref no-op-on-equal: after an assignment whose raw form is the same value as
\* the ref's raw value, the setter has returned without a trigger call, the stored
\* value is what it was, and no effect or getter has run.
C6_NoOpOnEqual ==
  (lastSet.on /\ lastSet.same) =>
     /\ Quiescent
     /\ val[lastSet.r] = lastSet.before
     /\ runsEpoch = lastSet.runs

\* The proxy of the object the ref holds is assigned while an effect and a clean
\* computed depend on the ref.
C6_Witness ==
  /\ lastSet.on /\ lastSet.same
  /\ lastSet.v.t = "proxy"
  /\ {"e1", "X"} \subseteq Range(deps["a"])
  /\ ~dirty["X"]

\* ------------------------------------- SpecQueue: the microtask job queue
\* j1, j2 = effect(body, {lazy: true, scheduler: queueJob}).  A body does nothing,
\* queues itself, queues the other job, reads a, or reads b and increments a.
JobBodies(self, other) ==
  { <<>>, <<Q(self)>>, <<Q(other)>>, <<R("a")>>, <<R("b"), INC("a")>> }

InitQueue ==
  \E p1 \in JobBodies("j1", "j2"), p2 \in JobBodies("j2", "j1") :
    Constructed(KindOf(Refs, {}, {}, Jobs, {}),
                [i \in Effects |-> IF i = "j1" THEN p1 ELSE IF i = "j2" THEN p2 ELSE <<>>],
                Nums, [r \in Refs |-> Num(0)])

NextQueue ==
  \/ \E j \in Jobs : QueueJob(j)
  \/ \E r \in Refs, v \in vals : TopWrite(r, v)
  \/ RunMicrotask
  \/ ExecReadRef \/ ExecInc \/ ExecQueue
  \/ TriggerQueueJob \/ TriggerDone
  \/ ReturnPlain
  \/ FlushJob \/ FlushDone

SpecQueue == InitQueue /\ [][NextQueue]_vars

\* flushJobs has gone through pendingJobs and is about to clear it.
FlushAtEnd ==
  /\ Len(callStack) = 1
  /\ callStack[1].k = "flush"
  /\ callStack[1].pc > Len(pendingJobs)

\* C7. Batched job dedup: a job passed to queueJob once or more before a flush is
\* executed by that flush exactly once, however often it was passed, and at most one
\* flush is scheduled at any time.
C7_BatchedDedup ==
  /\ Len(microtasks) <= 1
  /\ \A j \in Jobs : qobs.batch[j] >= 1 => qobs.execThis[j] <= 1
  /\ FlushAtEnd => \A j \in Jobs : qobs.batch[j] >= 1 => qobs.execThis[j] = 1

\* A flush has run a job that was queued twice or more before it.
C7_Witness ==
  /\ FlushAtEnd
  /\ \E j \in Jobs : qobs.batch[j] >= 2 /\ qobs.execThis[j] = 1

\* C8. No flush re-entrancy: a job passed to queueJob while a flush is running (and
\* not before it) is not executed by that flush.
C8_NoFlushReentrancy == qobs.lateRun = {}

\* C9. Eventual consistency: a queueJob call that has not been followed by an
\* execution of its job always has a flush running or scheduled to serve it.
C9_EveryCallServed ==
  (Quiescent /\ microtasks = <<>>) => qobs.owed = {}

\* ----------------------------------------------------- SpecWatch: watch()
\* a = ref(va); b = ref(vb); then watch(a, cb) or watch(() => a.value + b.value, cb),
\* without immediate; after that top-level code assigns to a and b.  cb records
\* its arguments.
WatchGetters == { <<R("a")>>, <<R("a"), RADD("b")>> }

InitWatch ==
  \E g \in WatchGetters, va \in Nums, vb \in Nums :
    Constructed(KindOf(Refs, {}, {}, {}, {"w"}),
                [i \in Effects |-> IF i = "w" THEN g ELSE <<>>],
                Nums, [r \in Refs |-> IF r = "a" THEN va ELSE vb])

NextWatch ==
  \/ CreateWatch("w")
  \/ \E r \in Refs, v \in vals : "w" \in created /\ TopWrite(r, v)
  \/ ExecReadRef
  \/ TriggerJob \/ TriggerDone
  \/ ReturnWatchJob \/ ReturnWatchSetup

SpecWatch == InitWatch /\ [][NextWatch]_vars

\* The watched source's current value, and the number of value-changing mutations
\* of the refs it reads, since the watch was set up.
SourceValue ==
  IF prog["w"] = <<R("a")>> THEN val["a"] ELSE Plus(val["a"], val["b"])
SourceMutations ==
  IF prog["w"] = <<R("a")>> THEN muts["a"] ELSE muts["a"] + muts["b"]

\* C10. watch scheduler semantics: whenever top-level code has control after k
\* value-changing mutations of the source, cb has been called exactly k times; the
\* latest call got the source's current value as newValue, and every call got as
\* oldValue the newValue of the call before it (the value at setup for the first).
C10_WatchPerTrigger ==
  (Quiescent /\ "w" \in created) =>
     /\ Len(cbLog) = SourceMutations
     /\ cbLog # <<>> => cbLog[Len(cbLog)][1] = SourceValue
     /\ \A i \in DOMAIN cbLog :
          cbLog[i][2] = (IF i = 1 THEN setupVal ELSE cbLog[i - 1][1])

\* Three mutations in a row have called cb three times.
C10_Witness ==
  /\ Quiescent
  /\ Len(cbLog) = 3
  /\ muts["a"] >= 2

\* ------------------------------------ SpecDispose: disposers and cleanup
\* a = ref(0), b = ref(0); stopW = watch(a, cb); stopE = watchEffect(e2's body);
\* effect(e1's body), created in any order.  e1 reads a and calls a disposer,
\* always or when a.value is truthy; e2 reads a, or reads a, calls its own disposer
\* when a.value is truthy and then reads b.  Top-level code assigns to a and b and
\* calls the disposers.
DisposerBodies ==
  { <<R("a"), STOP("w")>>, <<R("a"), STOP("e2")>>,
    <<R("a"), BRZ(1), STOP("w")>>, <<R("a"), BRZ(1), STOP("e2")>> }

WatchEffectBodies == { <<R("a")>>, <<R("a"), BRZ(1), STOP("e2"), R("b")>> }

InitDispose ==
  \E p1 \in DisposerBodies, p2 \in WatchEffectBodies :
    Constructed(KindOf(Refs, {}, PlainEffects, {}, {"w"}),
                [i \in Effects |-> IF i = "e1" THEN p1 ELSE IF i = "e2" THEN p2
                                   ELSE IF i = "w" THEN <<R("a")>> ELSE <<>>],
                Nums, [r \in Refs |-> Num(0)])

\* The disposers a body calls, and whether it calls them under if (a.value) only.
StopTargets(e) == {prog[e][i].c : i \in {n \in DOMAIN prog[e] : prog[e][n].op = "stop"}}
Guarded(e) == \E i \in DOMAIN prog[e] : prog[e][i].op = "brz"

\* A disposer exists once watch() or watchEffect() has returned it: no run calls
\* one before that.
DisposersExist(e) ==
  \/ StopTargets(e) \subseteq created
  \/ Guarded(e) /\ Falsy(val["a"])

NextDispose ==
  \/ \E e \in PlainEffects : DisposersExist(e) /\ CreateEffect(e)
  \/ CreateWatch("w")
  \/ \E r \in Refs, v \in vals :
        /\ \A e \in created \cap PlainEffects : StopTargets(e) \subseteq created
        /\ TopWrite(r, v)
  \/ \E e \in {"e2", "w"} : Stop(e)
  \/ ExecReadRef \/ ExecBranch \/ ExecStop
  \/ TriggerInline \/ TriggerJob \/ TriggerDone
  \/ ReturnPlain \/ ReturnWatchJob \/ ReturnWatchSetup

SpecDispose == InitDispose /\ [][NextDispose]_vars

\* C11. Disposers stop for good: the watch callback is never called, and the
\* watchEffect function never started, after the disposer of that watcher or
\* effect has been called.
C11_DisposedForGood ==
  /\ \A i \in DOMAIN cbLog : ~cbLog[i][3]
  /\ \A i \in DOMAIN callStack :
        (callStack[i].k = "run" /\ callStack[i].e = "e2") => ~callStack[i].late

\* C12. cleanup is complete and lasting: an effect on which cleanup was called
\* after its latest run started, and whose body is not executing, is a member of no
\* dependency set and its own edge list is empty.
C12_CleanupComplete ==
  \A e \in Effects :
    (stopped[e] /\ e \notin Range(effectStack)) =>
       /\ edeps[e] = {}
       /\ \A c \in Containers : e \notin Range(deps[c])

\* ----------------------------------- SpecRender: render into two containers
\* The vnode trees top-level code renders: a div over up to MaxChildren list items,
\* keyed (h('li', {key: k, id: k})) or not, equal keys allowed; over a single string;
\* over a string and an element; over a p and a li; over a Text vnode; and a ul.
Keys == {"a", "b", "c"}
Li(k) == VNode("li", k, IF k = None THEN "u" ELSE k, <<>>)
SeqsUpTo(S, n) == UNION {[1..m -> S] : m \in 0..n}

ChildLists ==
  SeqsUpTo({Li(k) : k \in Keys \cup {None}}, MaxChildren)
    \cup { <<Prim("x")>>, <<Prim("y")>>, <<Prim("x"), Li("a")>>,
           <<VNode("p", "a", "a", <<>>), Li("b")>>,
           <<VNode("Text", None, "x", <<>>)>>, <<VNode("Text", None, "y", <<>>)>> }

Trees ==
  {VNode("div", None, "", l) : l \in ChildLists} \cup {VNode("ul", None, "", <<Li("a")>>)}

InitRender ==
  Constructed(KindOf({}, {}, {}, {}, {}), [i \in Effects |-> <<>>], Nums,
              [r \in Refs |-> Num(0)])

NextRender ==
  \/ \E t \in Trees, c \in ContainerEls : RenderNew(t, c)
  \/ \E id \in 1..MaxTrees, c \in ContainerEls : RenderSame(id, c)
  \/ \E c \in ContainerEls : RenderNull(c)

SpecRender == InitRender /\ [][NextRender]_vars

\* The output of mounting a vnode tree into an empty container.
FreshOutput(v) == Shape(mount(v, 1, 0, EmptyDom).st, 1).kids

\* The output of a container.
Output(c) == Shape(dom, c).kids

\* C13. Per-container render state machine: after render(v, c) the tree stored on c
\* is the argument; with no prior tree v is mounted (or, v being null, nothing
\* changes), render(null, c) with a prior tree leaves c without output, and no other
\* container's stored tree or output has changed.
C13_RenderStateMachine ==
  rlast.c # 0 =>
    /\ cvnode[rlast.c] = rlast.arg
    /\ (rlast.arg # 0 /\ rlast.prior = 0) => Output(rlast.c) = FreshOutput(rlast.argv)
    /\ (rlast.arg = 0 /\ rlast.prior = 0) => Output(rlast.c) = rlast.before[rlast.c].kids
    /\ (rlast.arg = 0 /\ rlast.prior # 0) => Output(rlast.c) = <<>>
    /\ \A c \in ContainerEls \ {rlast.c} :
          /\ cvnode[c] = rlast.stored[c]
          /\ Output(c) = rlast.before[c].kids

\* The latest render call patched a prior tree of the same root type.
Patched == rlast.arg # 0 /\ rlast.prior # 0 /\ rlast.oldv.type = rlast.argv.type

\* C14. Reconciliation makes the output match the new tree: after render(new, c)
\* over a previously rendered tree, the output of c is the output of mounting the
\* new tree into an empty container.
C14_OutputMatchesNewTree ==
  (rlast.arg # 0 /\ rlast.prior # 0) => Output(rlast.c) = FreshOutput(rlast.argv)

\* The children of the old and of the new root, and what the log says about them.
OldC == rlast.oldv.kids
NewC == vroot[rlast.arg].kids
Events(ev) == {n \in DOMAIN dom.log : dom.log[n].ev = ev}
Distinct(kids) == \A i, j \in DOMAIN kids : kids[i].key = kids[j].key => i = j

\* The new list is the old list in another order: the same keys, each once, every
\* key on a child of the type it had.
KeyedPermutation ==
  /\ Patched
  /\ OldC # <<>> /\ Len(OldC) = Len(NewC)
  /\ \A i \in DOMAIN OldC : OldC[i].key # None
  /\ Distinct(OldC) /\ Distinct(NewC)
  /\ \A i \in DOMAIN OldC : \E j \in DOMAIN NewC :
        NewC[j].key = OldC[i].key /\ NewC[j].type = OldC[i].type

C16_MatchingPartition ==
  (/\ Patched
   /\ \A i \in DOMAIN OldC : ~IsPrim(OldC[i])
   /\ \A j \in DOMAIN NewC : ~IsPrim(NewC[j])) =>
    /\ \A i \in DOMAIN OldC :
          Cardinality({n \in Events("match") \cup Events("drop") : dom.log[n].i = i}) = 1
    /\ \A j \in DOMAIN NewC :
          Cardinality({n \in Events("match") \cup Events("fresh") : dom.log[n].j = j}) = 1
    /\ \A n \in Events("match") : OldC[dom.log[n].i].key = NewC[dom.log[n].j].key

\* ---------------------------- SpecComponent: components over the ref count
\* count = ref(0) (the ref a).  Either render(h(Leaf), container), the leaf showing
\* count.value as a Text vnode or in a span; or render(h(Parent), container), the
\* parent showing the leaf while count.value is 0.  Every component function
\* registers two unmount callbacks.  Then top-level code assigns to count and
\* unmounts with render(null, container).
InitComponent ==
  \E view \in {"text", "span"} :
    Constructed([i \in Ids |-> IF i = "a" THEN "ref"
                               ELSE IF i \in Components THEN "component" ELSE "none"],
                [i \in Effects |->
                   IF i = "P"
                   THEN <<ON("unmounted", UnmountHooks), R("a"), COMMIT("parent")>>
                   ELSE IF i \in Components
                   THEN <<ON("unmounted", UnmountHooks), R("a"), COMMIT(view)>>
                   ELSE <<>>],
                Nums, [r \in Refs |-> Num(0)])

\* A third instance of the child is beyond the scenario.
WithinInstances(v) ==
  ("P" \in created /\ ~HasChild("P") /\ Falsy(v) /\ ~ObjectIs(ToRaw(v), raw["a"]))
     => FreeInstances # {}

NextComponent ==
  \/ \E k \in {"P", "K1"} : RenderComponent(k)
  \/ \E v \in vals : WithinInstances(v) /\ TopWrite("a", v)
  \/ UnmountRoot
  \/ RunHooksMicrotask
  \/ ExecOn \/ ExecReadRef
  \/ ExecCommitLeaf \/ ExecCommitParent \/ ExecCommitMountChild \/ ExecCommitChildDone
  \/ TriggerInline \/ TriggerDone
  \/ ReturnPlain

SpecComponent == InitComponent /\ [][NextComponent]_vars

\* The positions in the log of the events ev of the component k.
EventsOf(ev, k) == {n \in Events(ev) : dom.log[n].key = k}

\* C17. Unmount ordering: when a component is unmounted, every one of its unmount
\* callbacks is invoked, and each of them before the unmount of the component's
\* subtree begins and before cleanup of its update effect: a callback finds the
\* subtree's node in the document and the effect in a dependency set, and the
\* invocation has gone through the whole list when the unmount of the subtree begins.
C17_UnmountOrdering ==
  \A k \in Components :
    /\ \A h \in EventsOf("hook", k) :
          /\ \A n \in EventsOf("subtree", k) \cup EventsOf("cleanup", k) : h < n
          /\ dom.log[h].i = 1 /\ dom.log[h].j = 1
    /\ EventsOf("subtree", k) \cup EventsOf("cleanup", k) # {} =>
          \E d \in EventsOf("done", k) :
             /\ dom.log[d].el = Cardinality(EventsOf("hook", k))
             /\ \A h \in EventsOf("hook", k) : h < d
             /\ \A n \in EventsOf("subtree", k) \cup EventsOf("cleanup", k) : d < n

\* The parent's re-render has unmounted the child, whose two callbacks were called,
\* and the root has been unmounted after that.
C17_Witness ==
  /\ Cardinality(EventsOf("hook", "K1")) = 2
  /\ EventsOf("cleanup", "K1") # {}
  /\ EventsOf("cleanup", "P") # {}
  /\ muts["a"] >= 1
  /\ Quiescent

\* C18. No life after unmount: the component function of an unmounted instance is
\* not invoked again (no run of its update effect starts after the unmount), and its
\* update effect is in no dependency set.
C18_NoLifeAfterUnmount ==
  \A k \in Components \cap disposed :
    /\ \A i \in DOMAIN callStack :
          (callStack[i].k = "run" /\ callStack[i].e = k) => ~callStack[i].late
    /\ k \notin Range(effectStack) => \A c \in Containers : k \notin Range(deps[c])

\* The leaf component is the root, mounted and not unmounted.
LeafMounted ==
  /\ Quiescent
  /\ cvnode[1] # 0 /\ vroot[cvnode[1]].component = "K1"
  /\ inst["K1"].isMounted

\* The nodes the mount of the leaf created: the first node made, and for the span
\* view the text node made right after it.
FirstNode == EmptyDom.next
TextNode == IF prog["K1"][Len(prog["K1"])].c = "text" THEN FirstNode ELSE FirstNode + 1

\* C19. End-to-end update in place: whenever top-level code has control, the output
\* of the mounted leaf component is the text of count.value (in its span, for that
\* view), shown by the text node that the mount created.
C19_UpdateInPlace ==
  LeafMounted =>
    /\ dom.kids[1] = <<FirstNode>>
    /\ TextNode \in {FirstNode} \cup Range(dom.kids[FirstNode])
    /\ dom.kids[TextNode] = <<>>
    /\ dom.tag[TextNode] = "#text"
    /\ dom.txt[TextNode] = Str(val["a"])
    /\ Cardinality({n \in DOMAIN dom.kids : n \notin ContainerEls}) = TextNode - FirstNode + 1

\* count.value = 1 after the mount showed "0": the output is "1".
C19_Witness ==
  /\ LeafMounted
  /\ muts["a"] = 1 /\ val["a"] = Num(1)
  /\ dom.txt[TextNode] = "1"

\* ------------------------------- SpecApp: createApp over a leaf component
\* const app = createApp(Leaf), the leaf showing count.value; top-level code calls
\* app.mount with a selector that finds the first container, the second, or
\* nothing, calls app.unmount(), and assigns to count.
InitApp == InitComponent

NextApp ==
  \/ AppMountMissing
  \/ \E c \in ContainerEls : AppMountAgain(c)
  \/ \E c \in ContainerEls : AppMountFresh(c)
  \/ \E c \in ContainerEls : AppMountOver(c)
  \/ AppUnmount
  \/ AppUnmountSkipped
  \/ \E v \in vals : TopWrite("a", v)
  \/ RunHooksMicrotask
  \/ ExecOn \/ ExecReadRef
  \/ ExecCommitLeaf
  \/ TriggerInline \/ TriggerDone
  \/ ReturnPlain

SpecApp == InitApp /\ [][NextApp]_vars

\* C20. mount is idempotent after its first success: while the app is mounted, no
\* mount call has thrown and the app's container is the one of the first mount;
\* and once unmount() has been called on the mounted app, the app is not mounted
\* and the container of the first mount is empty.
C20_MountIdempotent ==
  /\ app.isMounted => (~app.threw /\ app.container = app.first)
  /\ app.last = "unmount" =>
        /\ ~app.isMounted
        /\ cvnode[app.first] = 0
        /\ dom.kids[app.first] = <<>>

\* --------------------------- SpecReactive: reactive objects and their proxies
\* const o1 = {x: 0}, o2 = {x: 0}.  Top-level code calls reactive() on the objects
\* and on the proxies it has, markRaw(o2), reads, writes and deletes properties
\* through the proxies; with state = reactive(o1) made, e1 is
\* effect(() => Object.keys(state)) and e2 is effect(() => state.x).
PropValues == {Num(0), Num(1), Obj(2)}

InitReactive ==
  Constructed([i \in Ids |-> IF i \in PlainEffects THEN "plain" ELSE "none"],
              [i \in Effects |-> IF i = "e1" THEN <<KEYS(1)>>
                                 ELSE IF i = "e2" THEN <<GETP(1, "x")>> ELSE <<>>],
              Nums, [r \in Refs |-> Num(0)])

NextReactive ==
  \/ \E e \in PlainEffects : ReactiveMapGet(rx, Obj(1)) # 0 /\ CreateEffect(e)
  \/ \E v \in {Obj(1), Obj(2)} \cup {Px(j) : j \in DOMAIN rx.target} : TopReactive(v)
  \/ TopMarkRaw(2)
  \/ \E j \in DOMAIN rx.target, k \in PKeys : TopGetProp(j, k)
  \/ \E j \in DOMAIN rx.target, k \in PKeys,
        v \in PropValues \cup {Px(m) : m \in DOMAIN rx.target} : TopSetProp(j, k, v)
  \/ \E j \in DOMAIN rx.target, k \in PKeys : TopDeleteProp(j, k)
  \/ ExecGetProp \/ ExecKeys
  \/ TriggerInline \/ TriggerDone
  \/ ReturnPlain

SpecReactive == InitReactive /\ [][NextReactive]_vars

\* C23. Reactive identity stability: all reactive(t) calls on one plain object t
\* return the same proxy, whose target is t; reactive(p) on a proxy returns p; a
\* property read that wraps t gives that proxy too; no two proxies have one
\* target, and no proxy has a proxy as its target.
C23_IdentityStable ==
  /\ \A m, n \in DOMAIN rx.calls :
        rx.calls[m].arg = rx.calls[n].arg => rx.calls[m].res = rx.calls[n].res
  /\ \A n \in DOMAIN rx.calls :
        LET c == rx.calls[n] IN
        /\ c.arg.t = "px" => c.res = c.arg
        /\ (c.arg.t = "obj" /\ c.arg.n \notin rx.marked) =>
              (c.res.t = "px" /\ rx.target[c.res.n] = c.arg)
        /\ \A g \in rx.gets : g.stored = c.arg => g.res = c.res
  /\ \A j, m \in DOMAIN rx.target : rx.target[j] = rx.target[m] => j = m
  /\ \A j \in DOMAIN rx.target : rx.target[j].t = "obj"

\* reactive(o2) was called twice, and reactive() was called on the proxy it gave.
C23_Witness ==
  \E m, n, q \in DOMAIN rx.calls :
    /\ m < n
    /\ rx.calls[m].arg = Obj(2) /\ rx.calls[n].arg = Obj(2)
    /\ rx.calls[q].arg = rx.calls[m].res

\* C24. markRaw opt-out: for an object o marked with markRaw, reactive(o) returns o
\* itself, which is not reactive, and a property read that finds o stored in a
\* reactive object returns o, not a proxy.
C24_MarkRawOptOut ==
  /\ \A n \in DOMAIN rx.calls :
        LET c == rx.calls[n] IN
        (c.arg.t = "obj" /\ c.arg.n \in rx.marked) =>
           (c.res = c.arg /\ ~isReactive(rx, c.res))
  /\ \A g \in rx.gets :
        (g.stored.t = "obj" /\ g.stored.n \in rx.marked) =>
           (g.res = g.stored /\ ~isReactive(rx, g.res))

\* C25. No proxy leakage into the raw store: no property of a raw object holds a
\* proxy; and the latest write, if it wrote the proxy of the object already stored
\* under the key, ran no dependent.
C25_NoProxyInRawStore ==
  /\ \A i \in ObjIds, k \in PKeys : rx.props[i][k].t # "px"
  /\ (rx.lastWrite.on /\ rx.lastWrite.proxy /\ rx.lastWrite.same) => ~rx.lastWrite.ran

\* state.x holds o2, e2 has read state.x, and state.x = reactive(o2) was written.
C25_Witness ==
  /\ rx.lastWrite.on /\ rx.lastWrite.proxy /\ rx.lastWrite.same
  /\ rx.props[1]["x"] = Obj(2)
  /\ "e2" \in Range(deps["o1.x"])
  /\ Quiescent

\* C26. Structural changes invalidate enumerators: whenever top-level code has
\* control, the keys that the latest run of a live effect got from
\* Object.keys(state) are the keys state has (a key added or deleted since would
\* have re-run the effect).
C26_EnumeratorsInvalidated ==
  Quiescent =>
    \A e \in (created \cap PlainEffects) \ disposed :
      rx.seen[e].on => rx.seen[e].keys = OwnKeys(rx, 1)

\* ------------------------- SpecStack: nested runs and exceptions in effects
\* a = ref(0), b = ref(0); X = computed(() => a.value), or a getter that throws
\* when a.value is 1; e1 reads X.value, inside try / catch or not, and then
\* b.value; e2 reads a.value and may throw when it is 1.
InitStack ==
  \E p1 \in {<<TRYR("X"), R("b")>>, <<R("X"), R("b")>>},
     p2 \in {<<R("a"), THROWIF(Num(1))>>, <<R("a")>>},
     px \in {<<R("a"), THROWIF(Num(1))>>, <<R("a")>>} :
    Constructed(KindOf(Refs, {"X"}, PlainEffects, {}, {}),
                [i \in Effects |-> IF i = "e1" THEN p1 ELSE IF i = "e2" THEN p2
                                   ELSE IF i = "X" THEN px ELSE <<>>],
                Nums, [r \in Refs |-> Num(0)])

NextStack ==
  \/ \E e \in PlainEffects : CreateEffect(e)
  \/ \E r \in Refs, v \in vals : TopWrite(r, v)
  \/ TopReadClean("X")
  \/ TopReadDirty("X")
  \/ ExecReadRef \/ ExecReadClean \/ ExecReadDirty
  \/ ExecThrow \/ ExecNoThrow
  \/ TriggerInline \/ TriggerDirtyFlag \/ TriggerDone
  \/ ReturnPlain \/ ReturnComputed
  \/ Unwind

SpecStack == InitStack /\ [][NextStack]_vars

\* The effects whose runs are on the call stack, outermost first.
RECURSIVE RunsOn(_)
RunsOn(stk) ==
  IF stk = <<>> THEN <<>>
  ELSE IF Head(stk).k = "run" THEN <<Head(stk).e>> \o RunsOn(Tail(stk))
  ELSE RunsOn(Tail(stk))

\* C30. Effect stack discipline: the active effect is the top of the effect stack,
\* null when it is empty; the effect stack holds exactly the runs that have not
\* exited, so after a run exits, normally or by exception, the effect active
\* before it is active again; and every container an effect read in its latest
\* run, after a nested run or not, has that effect in its dependency set.
C30_StackDiscipline ==
  /\ activeEffect = (IF effectStack = <<>> THEN None ELSE effectStack[Len(effectStack)])
  /\ effectStack = RunsOn(callStack)
  /\ \A e \in Effects : \A c \in lastRead[e] : ~stopped[e] => e \in Range(deps[c])

\* The getter of X threw inside e1's try, and e1 went on to read b.
C30_Witness ==
  /\ exc.caught >= 1
  /\ "b" \in lastRead["e1"]
  /\ Quiescent

\* ------------------- SpecLifecycle: lifecycle callbacks and render errors
\* count = ref(0) (the ref a).  Every component function registers the callbacks
\* hs with onMounted, onUpdated and onUnmounted, one of which may throw, and
\* reads count.value.  The leaf may throw when count.value is tv; the parent shows
\* the leaf while count.value is 0.
HookLists == {<<"g1", "g2">>, <<"g1", "boom", "g2">>}

InitLifecycle ==
  \E hs \in HookLists, tv \in {Num(0), Num(1), Undef} :
    Constructed([i \in Ids |-> IF i = "a" THEN "ref"
                               ELSE IF i \in Components THEN "component" ELSE "none"],
                [i \in Effects |->
                   IF i = "P"
                   THEN <<ON("mounted", hs), ON("updated", hs), ON("unmounted", hs),
                          R("a"), COMMIT("parent")>>
                   ELSE IF i \in Components
                   THEN <<ON("mounted", hs), ON("updated", hs), ON("unmounted", hs),
                          R("a"), THROWIF(tv), COMMIT("text")>>
                   ELSE <<>>],
                Nums, [r \in Refs |-> Num(0)])

NextLifecycle ==
  \/ \E k \in {"P", "K1"} : RenderComponent(k)
  \/ \E v \in vals : WithinInstances(v) /\ TopWrite("a", v)
  \/ UnmountRoot
  \/ RunHooksMicrotask
  \/ ExecOn \/ ExecReadRef \/ ExecThrow \/ ExecNoThrow
  \/ ExecCommitLeaf \/ ExecCommitParent \/ ExecCommitMountChild \/ ExecCommitChildDone
  \/ TriggerInline \/ TriggerDone
  \/ ReturnPlain
  \/ Unwind

SpecLifecycle == InitLifecycle /\ [][NextLifecycle]_vars

\* The calls of lifecycle callbacks in the log, and the list a call's callback is in.
HookCalls == {n \in DOMAIN dom.log : dom.log[n].ev \in {"hook", "onMounted", "onUpdated"}}
ListOf(ev, k) ==
  CASE ev = "hook" -> inst[k].unmounted
    [] ev = "onMounted" -> inst[k].mounted
    [] OTHER -> inst[k].updated

\* C21. Lifecycle callback errors are isolated: a callback that throws is followed
\* by the report of its error and by the next callback of its list; every
\* invocation of a list goes through all its callbacks in registration order and
\* returns to its caller; and an unmount whose callbacks were called has removed
\* the subtree and torn the effect down.
C21_HookErrorsIsolated ==
  /\ \A n \in HookCalls :
        LET e == dom.log[n] IN
        /\ Throws(ListOf(e.ev, e.key)[e.el]) =>
              (n < Len(dom.log) /\ dom.log[n + 1].ev = "error")
        /\ \E d \in (n + 1)..Len(dom.log) :
              /\ dom.log[d].ev = "done" /\ dom.log[d].key = e.key
              /\ dom.log[d].el >= e.el
              /\ \A m \in (n + 1)..(d - 1) :
                    /\ dom.log[m].ev # "done"
                    /\ m \in HookCalls => dom.log[m].el > e.el
              /\ \A q \in (e.el + 1)..dom.log[d].el :
                    \E m \in (n + 1)..(d - 1) : m \in HookCalls /\ dom.log[m].el = q
        /\ e.el > 1 => \E m \in HookCalls :
              /\ m < n /\ dom.log[m].el = e.el - 1 /\ dom.log[m].key = e.key
              /\ \A x \in (m + 1)..(n - 1) : dom.log[x].ev = "error"
  /\ \A k \in Components :
        EventsOf("hook", k) # {} =>
          /\ k \in disposed
          /\ \A h \in EventsOf("hook", k) : \E c \in EventsOf("cleanup", k) : h < c
          /\ inst[k].subTree.type # "null" => ~Connected(dom, inst[k].subTree.el, MaxDepth)

\* Callbacks that throw were called from a mount microtask and from an unmount, and
\* callbacks registered after them were called too.
C21_Witness ==
  /\ \E n \in HookCalls : dom.log[n].ev = "hook" /\ dom.log[n].el = 3
                          /\ Throws(inst[dom.log[n].key].unmounted[2])
  /\ \E n \in HookCalls : dom.log[n].ev = "onMounted" /\ dom.log[n].el = 3
                          /\ Throws(inst[dom.log[n].key].mounted[2])

\* C22. Render errors are not contained: every exception a component function
\* throws, in a first mount or in a re-render, has left the outermost call (render,
\* or the assignment that triggered the re-render) when top-level code has control
\* again; none is caught on the way.
C22_RenderErrorsPropagate ==
  /\ exc.caught = 0
  /\ exc.on => callStack # <<>>
  /\ Quiescent => exc.escaped = exc.thrown

\* The mounted root component threw in a re-render, and the assignment threw.
C22_Witness ==
  /\ Quiescent
  /\ exc.escaped >= 1 /\ muts["a"] >= 1
  /\ cvnode[1] # 0 /\ vroot[cvnode[1]].component = "K1" /\ inst["K1"].isMounted

\* C27. Mount callbacks are deferred: every mount callback is called from a
\* microtask, never from the commit that mounts the component, and the node of the
\* component's subtree is in the document then (unless the component was unmounted
\* before the microtask ran).
C27_MountHooksDeferred ==
  \A n \in Events("onMounted") : dom.log[n].i = 1 /\ dom.log[n].j = 1

\* ---------------------------------------------------------------- fragments
\* A program renders into one container a div whose children are a text vnode, a
\* keyed fragment and a keyed span, or the text vnode and the span alone, or a
\* fragment as the root; the fragment's children are strings and elements.
FragmentKids == {Prim("x"), Prim("y"), VNode("i", None, "", <<>>)}

Lead == VNode("Text", None, "p", <<>>)
Trail == VNode("span", "b", "", <<>>)

FragmentTrees ==
  {VNode("div", None, "", <<Lead, VNode("Fragment", "f", "", l), Trail>>) :
     l \in SeqsUpTo(FragmentKids, MaxFragment)}
  \cup {VNode("div", None, "", <<Lead, Trail>>)}
  \cup {VNode("Fragment", None, "", l) : l \in SeqsUpTo(FragmentKids, MaxFragment)}

InitFragment == InitRender

NextFragment ==
  \/ \E t \in FragmentTrees : RenderNew(t, 1)
  \/ RenderNull(1)

SpecFragment == InitFragment /\ [][NextFragment]_vars

\* The fragment among the children of a root, if there is one.
HasFragment(v) == v.type = "div" /\ Len(v.kids) = 3
Position(ks, n) == CHOOSE i \in DOMAIN ks : ks[i] = n

\* The node a childless child is realized as.
KidShape(c) ==
  IF IsPrim(c) \/ c.type = "Text" THEN [tag |-> "#text", txt |-> c.txt, kids |-> <<>>]
  ELSE [tag |-> c.type, txt |-> c.txt, kids |-> <<>>]

\* C28. Fragment locality: after render() has patched a div that holds the
\* fragment between two siblings, by patching the fragment or by unmounting it,
\* the nodes of the two siblings are still children of the div, in their order and
\* with their content; and the nodes of a patched fragment's children are the
\* nodes directly before its anchor.
C28_FragmentLocality ==
  (Patched /\ HasFragment(rlast.oldv)) =>
    LET old == rlast.oldv
        new == vroot[rlast.arg]
        ks == dom.kids[old.el]
        lead == old.kids[1].el
        trail == old.kids[3].el
        an == old.kids[2].anchor
        fk == new.kids[2].kids
    IN /\ lead \in Range(ks) /\ trail \in Range(ks)
       /\ Position(ks, lead) < Position(ks, trail)
       /\ Shape(dom, lead) = KidShape(Lead)
       /\ Shape(dom, trail) = KidShape(Trail)
       /\ HasFragment(new) =>
            /\ an \in Range(ks)
            /\ Position(ks, an) > Len(fk)
            /\ \A i \in DOMAIN fk :
                 Shape(dom, ks[Position(ks, an) - Len(fk) + i - 1]) = KidShape(fk[i])

\* ------------------------------------------------- the dependency graph
\* C31. The dependency graph is consistent in both directions: in every state an
\* effect is a member of the dependency set of a container if and only if that set
\* is among the effect's deps.
C31_GraphConsistent ==
  \A e \in Effects, c \in Containers : (e \in Range(deps[c])) <=> (c \in edeps[e])

\* An effect was stopped by a disposer after it had subscribed, a was assigned to,
\* another effect is subscribed, and nothing is running.
C31_Witness ==
  /\ Quiescent
  /\ \E e \in Effects : stopped[e] /\ everRead[e] # {} /\ edeps[e] = {}
  /\ \E e \in Effects : ~stopped[e] /\ edeps[e] # {}
  /\ muts["a"] >= 1

\* C32. No re-entrancy through nesting: no effect has two of its runs on the effect
\* stack at once, whichever effect made the write that started the later run.
C32_NoNestedReentry ==
  \A i, j \in DOMAIN effectStack : effectStack[i] = effectStack[j] => i = j

\* ------------------------------------- SpecFailingJob: a job that throws
\* a = ref(0); j1, j2 = effect(body, {lazy: true, scheduler: queueJob}).  A body does
\* nothing, or reads a and throws when a.value is 1.  Top-level code calls queueJob
\* and assigns to the refs.
FailingBodies == { <<>>, <<R("a"), THROWIF(Num(1))>> }

InitFailingJob ==
  \E p1 \in FailingBodies, p2 \in FailingBodies :
    Constructed(KindOf(Refs, {}, {}, Jobs, {}),
                [i \in Effects |-> IF i = "j1" THEN p1 ELSE IF i = "j2" THEN p2 ELSE <<>>],
                Nums, [r \in Refs |-> Num(0)])

NextFailingJob ==
  \/ \E j \in Jobs : QueueJob(j)
  \/ \E r \in Refs, v \in vals : TopWrite(r, v)
  \/ RunMicrotask
  \/ ExecReadRef \/ ExecThrow \/ ExecNoThrow
  \/ TriggerQueueJob \/ TriggerDone
  \/ ReturnPlain
  \/ FlushJob \/ FlushDone
  \/ Unwind

SpecFailingJob == InitFailingJob /\ [][NextFailingJob]_vars

\* C33. The job queue survives a failing job: once a job has thrown out of a flush
\* and no flush is running or scheduled, the scheduling flag is reset, so that no
\* queueJob call made since is left without a flush to execute its job.
C33_QueueSurvivesFailure ==
  (Quiescent /\ exc.escaped >= 1 /\ microtasks = <<>>) =>
     /\ ~isFlushing
     /\ \A j \in Jobs : qobs.calls[j] = 0

\* --------------------------------------------------- computed coherence
\* What a getter returns for the current values of the refs: the statements of
\* body p from pc on, with acc the value read last; a computed read inside is
\* its getter on the current values; Undef if the getter throws.
RECURSIVE GetterOn(_, _, _)
GetterOn(p, pc, acc) ==
  IF pc > Len(p) THEN acc
  ELSE LET i == p[pc] IN
       IF i.op \in {"read", "readadd", "tryread"}
       THEN LET v == IF i.c \in Refs THEN val[i.c] ELSE GetterOn(prog[i.c], 1, Undef)
            IN GetterOn(p, pc + 1, Combine(i.op, acc, v))
       ELSE IF i.op = "brz"
       THEN GetterOn(p, IF Falsy(acc) THEN pc + 1 + i.v.n ELSE pc + 1, acc)
       ELSE IF i.op = "throwif" /\ acc = i.v THEN Undef
       ELSE GetterOn(p, pc + 1, acc)

\* C34. Computed cache coherence: whenever no code is running, the cached value of
\* every clean computed is what its getter returns for the current values of its
\* sources.
C34_CacheCoherent ==
  Quiescent =>
    \A x \in Computeds :
      (kind[x] = "computed" /\ ~dirty[x]) => cval[x] = GetterOn(prog[x], 1, Undef)

\* ------------------------- SpecGlitch: an effect over a ref and its computed
\* a = ref(0); X = computed(() => a.value); e1 = effect(() => a.value + X.value) or
\* effect(() => X.value + a.value), created before or after top-level code has read
\* X.value; top-level code assigns to a.
GlitchBodies == { <<R("a"), RADD("X")>>, <<R("X"), RADD("a")>> }

InitGlitch ==
  \E p1 \in GlitchBodies :
    Constructed(KindOf({"a"}, {"X"}, {"e1"}, {}, {}),
                [i \in Effects |-> IF i = "e1" THEN p1 ELSE IF i = "X" THEN <<R("a")>>
                                   ELSE <<>>],
                Nums, [r \in Refs |-> Num(0)])

NextGlitch ==
  \/ CreateEffect("e1")
  \/ \E v \in vals : TopWrite("a", v)
  \/ TopReadClean("X")
  \/ TopReadDirty("X")
  \/ ExecReadRef \/ ExecReadClean \/ ExecReadDirty
  \/ TriggerInline \/ TriggerDirtyFlag \/ TriggerDone
  \/ ReturnPlain \/ ReturnComputed

SpecGlitch == InitGlitch /\ [][NextGlitch]_vars

\* C35. Glitch freedom: every run of e1 that has evaluated its sum has read the
\* current value of a both from a and from X, so the sum is twice that value.
C35_GlitchFree ==
  \A i \in DOMAIN callStack :
    (callStack[i].k = "run" /\ callStack[i].e = "e1"
       /\ callStack[i].pc > Len(prog["e1"])) =>
      callStack[i].acc = Plus(val["a"], val["a"])

\* ------------------------------------------- the order of lifecycle callbacks
\* C36. Lifecycle order per instance: every call of a mount or update callback of
\* an instance comes before every call of its unmount callbacks and before the
\* cleanup of its update effect.
C36_LifecycleOrder ==
  \A k \in Components :
    \A m \in EventsOf("onMounted", k) \cup EventsOf("onUpdated", k) :
      \A u \in EventsOf("hook", k) \cup EventsOf("cleanup", k) : m < u

\* ------------------------- SpecHooksOnce: one callback of each kind per body
\* count = ref(0) (the ref a); Leaf = () => { onMounted(g); onUpdated(g);
\* onUnmounted(g); return createTextVNode(count.value) }.  Top-level code renders
\* h(Leaf), assigns to count, lets the microtasks run and unmounts.
InitHooksOnce ==
  Constructed([i \in Ids |-> IF i = "a" THEN "ref"
                             ELSE IF i \in Components THEN "component" ELSE "none"],
              [i \in Effects |->
                 IF i \in Components
                 THEN <<ON("mounted", <<"g1">>), ON("updated", <<"g1">>),
                        ON("unmounted", <<"g1">>), R("a"), COMMIT("text")>>
                 ELSE <<>>],
              Nums, [r \in Refs |-> Num(0)])

NextHooksOnce ==
  \/ RenderComponent("K1")
  \/ \E v \in vals : TopWrite("a", v)
  \/ UnmountRoot
  \/ RunHooksMicrotask
  \/ ExecOn \/ ExecReadRef
  \/ ExecCommitLeaf
  \/ TriggerInline \/ TriggerDone
  \/ ReturnPlain

SpecHooksOnce == InitHooksOnce /\ [][NextHooksOnce]_vars

\* The invocations of a callback list of the leaf that have returned: the "done"
\* events that follow calls of kind ev (or, for an empty list, none).
Invocations(ev) ==
  {d \in EventsOf("done", "K1") : d > 1 /\ dom.log[d - 1].ev = ev /\ dom.log[d - 1].key = "K1"}

\* C37. Lifecycle callbacks fire once per event: the mount callback of the leaf
\* has been called at most once in all, every invocation of the update callbacks
\* calls one callback, and so does the invocation of the unmount callbacks; the
\* callback lists of the instance hold one callback each.
C37_HooksOncePerEvent ==
  /\ Cardinality(EventsOf("onMounted", "K1")) <= 1
  /\ \A d \in Invocations("onUpdated") \cup Invocations("hook") : dom.log[d].el = 1
  /\ \A l \in {"mounted", "updated", "unmounted"} : Len(inst["K1"][l]) <= 1

\* C38. Unmount removes everything mount created: after render(null, container)
\* over a rendered tree the container has no child node left.
C38_UnmountRemovesAll ==
  (rlast.arg = 0 /\ rlast.prior # 0) => dom.kids[rlast.c] = <<>>

\* ------------------------------ SpecFamily: a parent that always shows a child
\* count = ref(0) (the ref a).  Parent = () => h('div', null, h(Leaf, {n: count.value}))
\* or h('div', null, h(Leaf)) after reading count.value; Leaf = () =>
\* createTextVNode(count.value).  Top-level code renders h(Parent), assigns to count
\* and unmounts.
InitFamily ==
  \E view \in {"family", "fixed"} :
    Constructed([i \in Ids |-> IF i = "a" THEN "ref"
                               ELSE IF i \in Components THEN "component" ELSE "none"],
                [i \in Effects |-> IF i = "P" THEN <<R("a"), COMMIT(view)>>
                                   ELSE IF i \in Components THEN <<R("a"), COMMIT("text")>>
                                   ELSE <<>>],
                Nums, [r \in Refs |-> Num(0)])

NextFamily ==
  \/ RenderComponent("P")
  \/ \E v \in vals : TopWrite("a", v)
  \/ UnmountRoot
  \/ RunHooksMicrotask
  \/ ExecReadRef
  \/ ExecCommitLeaf \/ ExecCommitParent \/ ExecCommitMountChild \/ ExecCommitPatchChild
  \/ ExecCommitChildDone
  \/ TriggerInline \/ TriggerDone
  \/ ReturnPlain

SpecFamily == InitFamily /\ [][NextFamily]_vars

\* C39. One render per mutation: since the latest assignment to count, the
\* component function of every component has been invoked at most once.
C39_OneRenderPerMutation ==
  \A k \in Components : runsEpoch[k] <= 1

\* ------------------------------------------------------ router.ts: navigate
\* The tail of navigate, after the guards: replaceState or pushState, then
\* `currentRoute.value = newLocation` and the afterEach hooks.
Finish(r, n) ==
  LET href == Href(n.to)
      k == Len(r.entries) IN
  [r EXCEPT !.entries = IF n.replace THEN [r.entries EXCEPT ![k] = href]
                        ELSE Append(r.entries, href),
            !.currentRoute = parseLocation(href),
            !.after = <<parseLocation(href), n.from>>]

\* navigate(to, replace) up to its first await: with no guard it runs to its end
\* within the call, otherwise it suspends in the await of the first guard.
navigate(r, id, to, replace, hops) ==
  LET n == [id |-> id, to |-> resolveTarget(to), replace |-> replace,
            from |-> r.currentRoute, g |-> 1, hops |-> hops] IN
  IF r.beforeGuards = 0 THEN Finish(r, n)
  ELSE [r EXCEPT !.pending = @ \cup {n}]

\* router.beforeEach(guard).
BeforeEach ==
  /\ router.beforeGuards < MaxGuards
  /\ router.started = 0
  /\ router' = [router EXCEPT !.beforeGuards = @ + 1]
  /\ UNCHANGED notRouter

\* What a call of push or replace is observed to be: one more navigation
\* started, possibly while another is suspended in a guard.
Called(r, to) ==
  [r EXCEPT !.started = @ + 1, !.last = resolveTarget(to),
            !.overlap = @ \/ r.pending # {}]

\* router.push(to), called by the page: navigate(to, false).
RouterPush ==
  \E to \in Locations :
    /\ router.started < MaxNavigations
    /\ router' = navigate(Called(router, to), router.started + 1, to, FALSE, 0)
    /\ UNCHANGED notRouter

\* router.replace(to), called by the page: navigate(to, true).
RouterReplace ==
  \E to \in Locations :
    /\ router.started < MaxNavigations
    /\ router' = navigate(Called(router, to), router.started + 1, to, TRUE, 0)
    /\ UNCHANGED notRouter

\* The promise of the guard a navigation awaits resolves to undefined: the loop
\* goes on to the next guard, or navigate runs to its end.  Guards are user code
\* and resolve when their timers or requests do, in any order.
GuardPasses ==
  \E n \in router.pending :
    /\ router' = IF n.g < router.beforeGuards
                 THEN [router EXCEPT !.pending = (@ \ {n}) \cup {[n EXCEPT !.g = @ + 1]}]
                 ELSE Finish([router EXCEPT !.pending = @ \ {n}], n)
    /\ UNCHANGED notRouter

\* The guard resolves to false: navigate returns.
GuardRejects ==
  \E n \in router.pending :
    /\ router' = [router EXCEPT !.pending = @ \ {n}, !.straight = FALSE]
    /\ UNCHANGED notRouter

\* The guard resolves to a target: `await navigate(result, replace); return`.
GuardRedirects ==
  \E n \in router.pending :
    /\ n.hops = 0
    /\ router' = navigate([router EXCEPT !.pending = @ \ {n}, !.straight = FALSE],
                          n.id, RedirectTo, n.replace, n.hops + 1)
    /\ UNCHANGED notRouter

InitRouter == InitRender

NextRouter ==
  \/ BeforeEach
  \/ RouterPush
  \/ RouterReplace
  \/ GuardPasses
  \/ GuardRejects
  \/ GuardRedirects

SpecRouter == InitRouter /\ [][NextRouter]_vars

\* C40. Navigations do not overtake each other: when a push or replace was
\* started while an earlier navigation awaited a guard, every guard let its
\* navigation pass, and no navigation is in flight any more, currentRoute and the
\* last history entry are the location of the navigation started last.
C40_NoOvertaking ==
  (router.overlap /\ router.straight /\ router.pending = {}) =>
     /\ router.currentRoute = router.last
     /\ router.entries[Len(router.entries)] = Href(router.last)
====
